---- MODULE Spec2Model ----
(***************************************************************************)
(* Customizable text history: the history selector, the last-user-message  *)
(* query and the settings store of the five implementations kept in this   *)
(* repository.                                                             *)
(*                                                                         *)
(*   userscript   src/index.js 14-776      "Chat to Human Readable"        *)
(*   threader     src/index.js 778-1092    "custom-threader"               *)
(*   builder      src/index.js 1095-1538   "custom-thread-builder"         *)
(*   handler      src/unnamed/part_000     "custom-template-handler-regex" *)
(*   texthistory  src/unnamed/part_001     "customizable-text-history-..." *)
(*                                                                         *)
(* A JavaScript array that a function mutates in place is modelled by the  *)
(* pair (contents, shared): shared says whether the local name refers to   *)
(* the very array object the conversation store holds.                     *)
(***************************************************************************)
EXTENDS Integers, Sequences, FiniteSets, TLC

VARIABLES impl, phase, hostChat, chat, extension_settings, ret, defaultRegexRules

vars == <<impl, phase, hostChat, chat, extension_settings, ret, defaultRegexRules>>

(* ------------------------------ bounds --------------------------------- *)

\* longest conversation the host builds
MaxTurns == 3
\* largest integer typed into a numeric settings input
MaxTyped == 2

\* message texts the host produces: a text is a sequence of characters
\* (lengths 0 and 3)
Texts == {<<>>, <<"a", "b", "c">>}

\* what a user can type into a numeric input: the decimal text of an integer
\* (digits |-> TRUE, n |-> the integer), or text with no leading number
TypedValues ==
    [digits : {TRUE}, n : (-1) .. MaxTyped] \cup {[digits |-> FALSE, n |-> 0]}

Impls == {"userscript", "threader", "builder", "handler", "texthistory"}

\* implementations whose module-level `chat` is a local snapshot of the host
\* conversation (the others import the host array itself)
SnapshotImpls == {"userscript", "handler"}

(* -------------------------------- strings ------------------------------ *)
\* A string is the sequence of its characters; these are the string literals
\* of the default settings.

Chars_Student == <<"S", "t", "u", "d", "e", "n", "t">>
Chars_Teacher == <<"T", "e", "a", "c", "h", "e", "r">>
Chars_StudentsTurn ==
    <<"#", "#", " ", "S", "t", "u", "d", "e", "n", "t", "'", "s", " ", "T", "u", "r", "n">>
Chars_TeachersTurn ==
    <<"#", "#", " ", "T", "e", "a", "c", "h", "e", "r", "'", "s", " ", "T", "u", "r", "n">>
Chars_student == <<"s", "t", "u", "d", "e", "n", "t">>
Chars_teacher == <<"t", "e", "a", "c", "h", "e", "r">>

\* pieces of the template literals of the formatters
NL == <<"\n">>
Chars_message == <<"_", "m", "e", "s", "s", "a", "g", "e", ">">>
Digits == <<"0", "1", "2", "3", "4", "5", "6", "7", "8", "9">>

\* `<${tag}_message>` and `</${tag}_message>`
OpenMessageTag(tag) == <<"<">> \o tag \o Chars_message
CloseMessageTag(tag) == <<"<", "/">> \o tag \o Chars_message

\* `${n}` for an integer n >= 0
RECURSIVE NumberToString(_)
NumberToString(n) ==
    IF n < 10 THEN <<Digits[n + 1]>>
    ELSE NumberToString(n \div 10) \o <<Digits[(n % 10) + 1]>>

\* s.split(sep) for a one-character separator, scanning from position i with
\* the piece cur being collected
RECURSIVE Split(_, _, _, _)
Split(s, sep, i, cur) ==
    IF i > Len(s) THEN <<cur>>
    ELSE IF s[i] = sep THEN <<cur>> \o Split(s, sep, i + 1, <<>>)
    ELSE Split(s, sep, i + 1, Append(cur, s[i]))

\* the characters String.prototype.trim() removes
IsWhitespace(ch) == ch \in {" ", "\n", "\t", "\r"}

\* the first position from i up, and the last from i down, that holds no
\* whitespace
RECURSIVE TrimStart(_, _)
TrimStart(s, i) ==
    IF i > Len(s) THEN i
    ELSE IF IsWhitespace(s[i]) THEN TrimStart(s, i + 1) ELSE i

RECURSIVE TrimEnd(_, _)
TrimEnd(s, i) ==
    IF i < 1 THEN i
    ELSE IF IsWhitespace(s[i]) THEN TrimEnd(s, i - 1) ELSE i

\* s.trim()
Trim(s) == SubSeq(s, TrimStart(s, 1), TrimEnd(s, Len(s)))

\* parts.join(sep) from part k on
RECURSIVE Join(_, _, _)
Join(parts, sep, k) ==
    IF k > Len(parts) THEN <<>>
    ELSE IF k = Len(parts) THEN parts[k]
    ELSE parts[k] \o sep \o Join(parts, sep, k + 1)

(* --------------------------- default settings -------------------------- *)

defaultSettings_userscript ==
    [userName |-> Chars_Student, assistantName |-> Chars_Teacher,
     userHeader |-> Chars_StudentsTurn, assistantHeader |-> Chars_TeachersTurn,
     xmlUserTag |-> Chars_student, xmlAssistantTag |-> Chars_teacher,
     skipLastAssistant |-> TRUE, maxTokens |-> 0, charsPerToken |-> 4,
     softTokenLimit |-> FALSE, excludeLastUser |-> FALSE, regexRules |-> <<>>]

defaultSettings_threader ==
    [userName |-> Chars_Student, assistantName |-> Chars_Teacher,
     userHeader |-> Chars_StudentsTurn, assistantHeader |-> Chars_TeachersTurn,
     xmlUserTag |-> Chars_student, xmlAssistantTag |-> Chars_teacher,
     skipLastAssistant |-> TRUE, maxTokens |-> 0, charsPerToken |-> 4,
     softTokenLimit |-> FALSE, removeLastUserFromHistory |-> FALSE,
     regexRules |-> <<>>]

defaultSettings_builder ==
    [userName |-> Chars_Student, assistantName |-> Chars_Teacher,
     userHeader |-> Chars_StudentsTurn, assistantHeader |-> Chars_TeachersTurn,
     xmlUserTag |-> Chars_student, xmlAssistantTag |-> Chars_teacher,
     skipLastAssistant |-> TRUE, maxTokens |-> 0, charsPerToken |-> 4,
     softTokenLimit |-> FALSE, excludeLastUserFromThread |-> FALSE,
     regexRules |-> <<>>]

defaultSettings_handler ==
    [userName |-> Chars_Student, assistantName |-> Chars_Teacher,
     userHeader |-> Chars_StudentsTurn, assistantHeader |-> Chars_TeachersTurn,
     xmlUserTag |-> Chars_student, xmlAssistantTag |-> Chars_teacher,
     skipLastAssistant |-> TRUE, maxTokens |-> 0, charsPerToken |-> 4,
     softTokenLimit |-> FALSE, removeLastUserFromHistory |-> FALSE,
     regexRules |-> <<>>]

defaultSettings_texthistory ==
    [userName |-> Chars_Student, assistantName |-> Chars_Teacher,
     userHeader |-> Chars_StudentsTurn, assistantHeader |-> Chars_TeachersTurn,
     xmlUserTag |-> Chars_student, xmlAssistantTag |-> Chars_teacher,
     skipLastAssistant |-> TRUE, maxTokens |-> 0, charsPerToken |-> 4,
     regexRules |-> <<>>]

(* ----------------------------- object helpers -------------------------- *)

\* the object literal {}
EmptyObject == [k \in {} |-> TRUE]

\* a settings entry of the store: absent (undefined / null), or an object
Entry(o) == [present |-> TRUE, obj |-> o]

\* Object.assign({}, a, b) and { ...a, ...b }: the keys of b win
ObjectAssign(a, b) ==
    [k \in (DOMAIN a) \cup (DOMAIN b) |-> IF k \in DOMAIN b THEN b[k] ELSE a[k]]

\* obj[key] = value
SetKey(o, key, value) ==
    [k \in (DOMAIN o) \cup {key} |-> IF k = key THEN value ELSE o[k]]

\* Math.ceil(a / b) for a >= 0 and b # 0
MathCeilDiv(a, b) ==
    IF b > 0 THEN (a + b - 1) \div b ELSE 0 - (a \div (0 - b))

\* parseInt / parseFloat of the typed text: a number, or NaN
parseInt(typed) ==
    IF typed.digits THEN [nan |-> FALSE, n |-> typed.n] ELSE [nan |-> TRUE, n |-> 0]

\* `x || d` for a parsed number x: NaN and 0 are falsy
OrDefault(x, d) == IF x.nan \/ x.n = 0 THEN d ELSE x.n

(* ------------------------------- getConfig ----------------------------- *)

getConfig_userscript(saved) ==
    IF ~saved.present THEN defaultSettings_userscript
    ELSE ObjectAssign(defaultSettings_userscript, saved.obj)

\* variant: the defaults are returned whatever the store holds
getConfig_threader_defaults(es) == defaultSettings_threader

getConfig_threader(es) ==
    IF es.present THEN es.obj ELSE defaultSettings_threader

\* variant: the entry is set to {} without the test for an existing entry
getConfig_builder_unguarded(es) ==
    LET es1 == Entry(EmptyObject)
    IN  [config |-> ObjectAssign(defaultSettings_builder, es1.obj),
         extension_settings |-> es1]

\* returns the merged configuration and the store as the call leaves it
getConfig_builder(es) ==
    LET es1 == IF ~es.present THEN Entry(EmptyObject) ELSE es
    IN  [config |-> ObjectAssign(defaultSettings_builder, es1.obj),
         extension_settings |-> es1]

getConfig_handler(settings) ==
    ObjectAssign(defaultSettings_handler, settings.obj)

getConfig_texthistory(es) == es.obj

(* ---------------------------- estimateTokens --------------------------- *)

\* the value undefined where a text is expected: no sequence of characters
IsUndefined(text) == Len(text) = 1 /\ text[1] = "undefined"

\* the call reads text.length of an undefined text and throws a TypeError;
\* the threader and the template handler test `!text` first
estimateTokensThrows(i, text) ==
    IsUndefined(text) /\ i \in {"userscript", "builder", "texthistory"}

estimateTokens_userscript(text, config) ==
    MathCeilDiv(Len(text), config.charsPerToken)

estimateTokens_threader(text, config) ==
    IF Len(text) = 0 \/ IsUndefined(text) THEN 0
    ELSE MathCeilDiv(Len(text), config.charsPerToken)

estimateTokens_builder(text, config) ==
    LET charsPerToken == IF config.charsPerToken = 0 THEN 4 ELSE config.charsPerToken
    IN  MathCeilDiv(Len(text), charsPerToken)

estimateTokens_handler(text, config) ==
    IF Len(text) = 0 \/ IsUndefined(text) THEN 0
    ELSE MathCeilDiv(Len(text), config.charsPerToken)

estimateTokens_texthistory(text, config) ==
    MathCeilDiv(Len(text), config.charsPerToken)

(* ------------------------------ arrays --------------------------------- *)

\* variant: no copy is made, the local name refers to the array itself
Spread_alias(a) == [arr |-> a, shared |-> TRUE]

\* [...a]: a fresh array holding the elements of a
Spread(a) == [arr |-> a, shared |-> FALSE]

\* a.slice(0, -1)
SliceDropLast(a) == SubSeq(a, 1, Len(a) - 1)

\* variant: the element before position i is the one removed
WithoutIndex_removesPrevious(a, i) == SubSeq(a, 1, i - 2) \o SubSeq(a, i, Len(a))

\* [...a.slice(0, i), ...a.slice(i + 1)] and a.splice(i, 1), for the 1-based
\* position i
WithoutIndex(a, i) == SubSeq(a, 1, i - 1) \o SubSeq(a, i + 1, Len(a))

\* variant: the scan runs from the front and stops at the first user message
ScanForUser_fromFront(a, i) ==
    IF \E j \in 1 .. i : a[j].is_user
    THEN CHOOSE j \in 1 .. i : a[j].is_user /\ \A k \in 1 .. (j - 1) : ~a[k].is_user
    ELSE 0

\* for (let i = a.length - 1; i >= 0; i--) if (a[i].is_user) ... break:
\* the position the loop stops at, scanning down from position i; 0 when it
\* runs off the front
RECURSIVE ScanForUser(_, _)
ScanForUser(a, i) ==
    IF i < 1 THEN 0
    ELSE IF a[i].is_user THEN i
    ELSE ScanForUser(a, i - 1)

(* --------------------------- selection steps --------------------------- *)

\* variant: the role test is inverted, a trailing assistant message stays
SkipLastAssistant_keepsAssistant(ref, skipLastAssistant) ==
    IF skipLastAssistant /\ Len(ref.arr) > 0
    THEN IF ref.arr[Len(ref.arr)].is_user
         THEN [arr |-> SliceDropLast(ref.arr), shared |-> FALSE]
         ELSE ref
    ELSE ref

\* "Skip last assistant message if enabled"
SkipLastAssistant(ref, skipLastAssistant) ==
    IF skipLastAssistant /\ Len(ref.arr) > 0
    THEN IF ~ref.arr[Len(ref.arr)].is_user
         THEN [arr |-> SliceDropLast(ref.arr), shared |-> FALSE]
         ELSE ref
    ELSE ref

\* "Exclude last user message if enabled", by rebuilding the array
ExcludeLastUserSlice(ref, excludeLastUser) ==
    IF excludeLastUser /\ Len(ref.arr) > 0
    THEN LET i == ScanForUser(ref.arr, Len(ref.arr))
         IN  IF i > 0 THEN [arr |-> WithoutIndex(ref.arr, i), shared |-> FALSE]
             ELSE ref
    ELSE ref

\* "Remove last user message from history if enabled", by splice in place
ExcludeLastUserSplice(ref, removeLastUser) ==
    IF removeLastUser
    THEN LET i == ScanForUser(ref.arr, Len(ref.arr))
         IN  IF i > 0 THEN [arr |-> WithoutIndex(ref.arr, i), shared |-> ref.shared]
             ELSE ref
    ELSE ref

\* variant: the hard limit compares the total so far, without the message
\* about to be added
RECURSIVE LimitLoop_hardIgnoresMessage(_, _, _, _, _, _, _)
LimitLoop_hardIgnoresMessage(messages, toks, i, limitedMessages, totalTokens, maxTokens, softTokenLimit) ==
    IF i < 1 THEN limitedMessages
    ELSE LET msg == messages[i]
             msgTokens == toks[i]
         IN  IF softTokenLimit
             THEN IF totalTokens + msgTokens >= maxTokens
                  THEN <<msg>> \o limitedMessages
                  ELSE LimitLoop_hardIgnoresMessage(messages, toks, i - 1,
                           <<msg>> \o limitedMessages, totalTokens + msgTokens,
                           maxTokens, softTokenLimit)
             ELSE IF totalTokens > maxTokens
                  THEN limitedMessages
                  ELSE LimitLoop_hardIgnoresMessage(messages, toks, i - 1,
                           <<msg>> \o limitedMessages, totalTokens + msgTokens,
                           maxTokens, softTokenLimit)

\* variant: the soft limit stops only once the total is strictly above the
\* limit
RECURSIVE LimitLoop_softStrict(_, _, _, _, _, _, _)
LimitLoop_softStrict(messages, toks, i, limitedMessages, totalTokens, maxTokens, softTokenLimit) ==
    IF i < 1 THEN limitedMessages
    ELSE LET msg == messages[i]
             msgTokens == toks[i]
         IN  IF softTokenLimit
             THEN IF totalTokens + msgTokens > maxTokens
                  THEN <<msg>> \o limitedMessages
                  ELSE LimitLoop_softStrict(messages, toks, i - 1,
                           <<msg>> \o limitedMessages, totalTokens + msgTokens,
                           maxTokens, softTokenLimit)
             ELSE IF totalTokens + msgTokens > maxTokens
                  THEN limitedMessages
                  ELSE LimitLoop_softStrict(messages, toks, i - 1,
                           <<msg>> \o limitedMessages, totalTokens + msgTokens,
                           maxTokens, softTokenLimit)

\* variant: the soft limit tests before it adds, as the hard limit does
RECURSIVE LimitLoop_softTestsFirst(_, _, _, _, _, _, _)
LimitLoop_softTestsFirst(messages, toks, i, limitedMessages, totalTokens, maxTokens, softTokenLimit) ==
    IF i < 1 THEN limitedMessages
    ELSE LET msg == messages[i]
             msgTokens == toks[i]
         IN  IF totalTokens + msgTokens > maxTokens
             THEN limitedMessages
             ELSE LimitLoop_softTestsFirst(messages, toks, i - 1,
                      <<msg>> \o limitedMessages, totalTokens + msgTokens,
                      maxTokens, softTokenLimit)

\* variant: the loop pushes each message at the end instead of unshifting it
RECURSIVE LimitLoop_push(_, _, _, _, _, _, _)
LimitLoop_push(messages, toks, i, limitedMessages, totalTokens, maxTokens, softTokenLimit) ==
    IF i < 1 THEN limitedMessages
    ELSE LET msg == messages[i]
             msgTokens == toks[i]
         IN  IF softTokenLimit
             THEN IF totalTokens + msgTokens >= maxTokens
                  THEN limitedMessages \o <<msg>>
                  ELSE LimitLoop_push(messages, toks, i - 1, limitedMessages \o <<msg>>,
                                      totalTokens + msgTokens, maxTokens, softTokenLimit)
             ELSE IF totalTokens + msgTokens > maxTokens
                  THEN limitedMessages
                  ELSE LimitLoop_push(messages, toks, i - 1, limitedMessages \o <<msg>>,
                                      totalTokens + msgTokens, maxTokens, softTokenLimit)

\* variant: in hard mode a message over the budget is passed over and the
\* loop goes on to the older ones
RECURSIVE LimitLoop_hardSkips(_, _, _, _, _, _, _)
LimitLoop_hardSkips(messages, toks, i, limitedMessages, totalTokens, maxTokens, softTokenLimit) ==
    IF i < 1 THEN limitedMessages
    ELSE LET msg == messages[i]
             msgTokens == toks[i]
         IN  IF softTokenLimit
             THEN IF totalTokens + msgTokens >= maxTokens
                  THEN <<msg>> \o limitedMessages
                  ELSE LimitLoop_hardSkips(messages, toks, i - 1,
                                           <<msg>> \o limitedMessages,
                                           totalTokens + msgTokens, maxTokens,
                                           softTokenLimit)
             ELSE IF totalTokens + msgTokens > maxTokens
                  THEN LimitLoop_hardSkips(messages, toks, i - 1,
                                           limitedMessages, totalTokens,
                                           maxTokens, softTokenLimit)
                  ELSE LimitLoop_hardSkips(messages, toks, i - 1,
                                           <<msg>> \o limitedMessages,
                                           totalTokens + msgTokens, maxTokens,
                                           softTokenLimit)

\* variant: the loop walks from the oldest message to the newest
RECURSIVE LimitLoop_fromFront(_, _, _, _, _, _, _)
LimitLoop_fromFront(messages, toks, i, limitedMessages, totalTokens, maxTokens, softTokenLimit) ==
    IF i < 1 THEN limitedMessages
    ELSE LET msg == messages[Len(messages) - i + 1]
             msgTokens == toks[Len(messages) - i + 1]
         IN  IF softTokenLimit
             THEN IF totalTokens + msgTokens >= maxTokens
                  THEN Append(limitedMessages, msg)
                  ELSE LimitLoop_fromFront(messages, toks, i - 1,
                                           Append(limitedMessages, msg),
                                           totalTokens + msgTokens, maxTokens,
                                           softTokenLimit)
             ELSE IF totalTokens + msgTokens > maxTokens
                  THEN limitedMessages
                  ELSE LimitLoop_fromFront(messages, toks, i - 1,
                                           Append(limitedMessages, msg),
                                           totalTokens + msgTokens, maxTokens,
                                           softTokenLimit)

\* the token-limit loop, from position i down; toks[i] is the estimate of
\* messages[i]
RECURSIVE LimitLoop(_, _, _, _, _, _, _)
LimitLoop(messages, toks, i, limitedMessages, totalTokens, maxTokens, softTokenLimit) ==
    IF i < 1 THEN limitedMessages
    ELSE LET msg == messages[i]
             msgTokens == toks[i]
         IN  IF softTokenLimit
             THEN IF totalTokens + msgTokens >= maxTokens
                  THEN <<msg>> \o limitedMessages
                  ELSE LimitLoop(messages, toks, i - 1, <<msg>> \o limitedMessages,
                                 totalTokens + msgTokens, maxTokens, softTokenLimit)
             ELSE IF totalTokens + msgTokens > maxTokens
                  THEN limitedMessages
                  ELSE LimitLoop(messages, toks, i - 1, <<msg>> \o limitedMessages,
                                 totalTokens + msgTokens, maxTokens, softTokenLimit)

\* variant: only the value 0 means unlimited
ApplyTokenLimit_onlyZero(messages, toks, maxTokens, softTokenLimit) ==
    IF maxTokens # 0
    THEN LimitLoop(messages, toks, Len(messages), <<>>, 0, maxTokens, softTokenLimit)
    ELSE messages

\* "Apply token limit (0 = unlimited)"
ApplyTokenLimit(messages, toks, maxTokens, softTokenLimit) ==
    IF maxTokens > 0
    THEN LimitLoop(messages, toks, Len(messages), <<>>, 0, maxTokens, softTokenLimit)
    ELSE messages

\* variant: the store is left holding the array the function worked on
StoreAfter_workingArray(store, ref) == ref.arr

\* what the conversation store holds once the function is done with the
\* array its local name refers to
StoreAfter(store, ref) == IF ref.shared THEN ref.arr ELSE store

(* ---------------------------- getChatHistory --------------------------- *)
\* Each returns the selection (messages), the array after the skip step and
\* after the exclude step, and the conversation array as the call leaves it.

getChatHistory_userscript(c, config) ==
    LET m0 == Spread(c)
        m1 == SkipLastAssistant(m0, config.skipLastAssistant)
        m2 == ExcludeLastUserSlice(m1, config.excludeLastUser)
        toks == [i \in 1 .. Len(m2.arr) |->
                    estimateTokens_userscript(m2.arr[i].mes, config)]
    IN  [messages |-> ApplyTokenLimit(m2.arr, toks, config.maxTokens,
                                      config.softTokenLimit),
         afterSkip |-> m1.arr, afterExclude |-> m2.arr,
         chat |-> StoreAfter(c, m2)]

getChatHistory_threader(c, config) ==
    LET m0 == Spread(c)
        m1 == SkipLastAssistant(m0, config.skipLastAssistant)
        m2 == ExcludeLastUserSplice(m1, config.removeLastUserFromHistory)
        toks == [i \in 1 .. Len(m2.arr) |->
                    estimateTokens_threader(m2.arr[i].mes, config)]
    IN  [messages |-> ApplyTokenLimit(m2.arr, toks, config.maxTokens,
                                      config.softTokenLimit),
         afterSkip |-> m1.arr, afterExclude |-> m2.arr,
         chat |-> StoreAfter(c, m2)]

getChatHistory_builder(c, config) ==
    LET m0 == Spread(c)
        m1 == SkipLastAssistant(m0, config.skipLastAssistant)
        m2 == IF Len(m1.arr) > 0
              THEN ExcludeLastUserSplice(m1, config.excludeLastUserFromThread)
              ELSE m1
        toks == [i \in 1 .. Len(m2.arr) |->
                    estimateTokens_builder(m2.arr[i].mes, config)]
    IN  [messages |-> ApplyTokenLimit(m2.arr, toks, config.maxTokens,
                                      config.softTokenLimit),
         afterSkip |-> m1.arr, afterExclude |-> m2.arr,
         chat |-> StoreAfter(c, m2)]

getChatHistory_handler(c, config) ==
    LET m0 == Spread(c)
        m1 == SkipLastAssistant(m0, config.skipLastAssistant)
        m2 == ExcludeLastUserSlice(m1, config.removeLastUserFromHistory)
        toks == [i \in 1 .. Len(m2.arr) |->
                    estimateTokens_handler(m2.arr[i].mes, config)]
    IN  [messages |-> ApplyTokenLimit(m2.arr, toks, config.maxTokens,
                                      config.softTokenLimit),
         afterSkip |-> m1.arr, afterExclude |-> m2.arr,
         chat |-> StoreAfter(c, m2)]

\* no exclude step and no soft mode in this implementation
getChatHistory_texthistory(c, config) ==
    LET m0 == Spread(c)
        m1 == SkipLastAssistant(m0, config.skipLastAssistant)
        toks == [i \in 1 .. Len(m1.arr) |->
                    estimateTokens_texthistory(m1.arr[i].mes, config)]
    IN  [messages |-> ApplyTokenLimit(m1.arr, toks, config.maxTokens, FALSE),
         afterSkip |-> m1.arr, afterExclude |-> m1.arr,
         chat |-> StoreAfter(c, m1)]

(* -------------------------- getLastUserMessage ------------------------- *)

\* variant: the last user message is looked up in the selected history
getLastUserMessage_userscript_selected(c) ==
    LET messages ==
            getChatHistory_userscript(
                c, getConfig_userscript(extension_settings)).messages
        i == ScanForUser(messages, Len(messages))
    IN  IF i > 0 THEN <<messages[i]>> ELSE <<>>

\* returns the message object, or null (the empty sequence)
getLastUserMessage_userscript(c) ==
    LET messages == Spread(c).arr
        i == ScanForUser(messages, Len(messages))
    IN  IF i > 0 THEN <<messages[i]>> ELSE <<>>

\* the other implementations return the text of the message, the empty
\* text for none
getLastUserMessage_threader(c) ==
    IF Len(c) = 0 THEN <<>>
    ELSE LET i == ScanForUser(c, Len(c)) IN IF i > 0 THEN c[i].mes ELSE <<>>

getLastUserMessage_builder(c) ==
    LET i == ScanForUser(c, Len(c)) IN IF i > 0 THEN c[i].mes ELSE <<>>

\* variant: the scan stops at the first user message of the conversation
getLastUserMessage_handler_firstUser(c) ==
    LET i == ScanForUser_fromFront(c, Len(c)) IN IF i > 0 THEN c[i].mes ELSE <<>>

getLastUserMessage_handler(c) ==
    LET i == ScanForUser(c, Len(c)) IN IF i > 0 THEN c[i].mes ELSE <<>>

(* ------------------------------ regex rules ---------------------------- *)
\* Patterns are taken from this part of the regular-expression dialect: a
\* run of literal characters, which may follow the anchor "^"; "(" stands
\* for a pattern that does not compile.

\* new RegExp(pattern, flags) does not throw
RegExpCompiles(pattern, flags) ==
    /\ \A k \in 1 .. Len(pattern) : pattern[k] # "("
    /\ \A k \in 1 .. Len(flags) : flags[k] \in {"g", "i", "m", "s", "u", "y"}
    /\ \A k, l \in 1 .. Len(flags) : flags[k] = flags[l] => k = l

HasFlag(flags, f) == \E k \in 1 .. Len(flags) : flags[k] = f

\* the canonical form under which the "i" flag compares characters
ToLower(ch) ==
    LET upper == <<"A", "B", "C", "D", "E", "F", "G", "H", "I", "J", "K", "L",
                   "M", "N", "O", "P", "Q", "R", "S", "T", "U", "V", "W", "X",
                   "Y", "Z">>
        lower == <<"a", "b", "c", "d", "e", "f", "g", "h", "i", "j", "k", "l",
                   "m", "n", "o", "p", "q", "r", "s", "t", "u", "v", "w", "x",
                   "y", "z">>
    IN  IF \E k \in 1 .. 26 : upper[k] = ch
        THEN lower[CHOOSE k \in 1 .. 26 : upper[k] = ch]
        ELSE ch

\* the literal part of a pattern
Literal(pattern) ==
    IF Len(pattern) > 0 /\ pattern[1] = "^" THEN Tail(pattern) ELSE pattern

\* the regex matches the text at position i (it then consumes
\* Len(Literal(pattern)) characters)
MatchesAt(text, i, pattern, flags) ==
    LET lit == Literal(pattern)
        n == Len(lit)
    IN  /\ (Len(pattern) > 0 /\ pattern[1] = "^")
              => (i = 1 \/ (HasFlag(flags, "m") /\ text[i - 1] = "\n"))
        /\ i + n - 1 <= Len(text)
        /\ \A k \in 1 .. n :
              IF HasFlag(flags, "i")
              THEN ToLower(text[i + k - 1]) = ToLower(lit[k])
              ELSE text[i + k - 1] = lit[k]

\* text.replace(regex, replacement) from position i on; the characters up to
\* the next match are copied in one piece
RECURSIVE StringReplaceFrom(_, _, _, _, _)
StringReplaceFrom(text, i, pattern, flags, replacement) ==
    LET n == Len(Literal(pattern))
        global == HasFlag(flags, "g")
    IN
    IF i > Len(text)
    THEN IF i = Len(text) + 1 /\ MatchesAt(text, i, pattern, flags)
         THEN replacement ELSE <<>>
    ELSE IF MatchesAt(text, i, pattern, flags)
    THEN IF n = 0
         THEN IF global
              THEN replacement \o <<text[i]>>
                   \o StringReplaceFrom(text, i + 1, pattern, flags, replacement)
              ELSE replacement \o SubSeq(text, i, Len(text))
         ELSE IF global
              THEN replacement
                   \o StringReplaceFrom(text, i + n, pattern, flags, replacement)
              ELSE replacement \o SubSeq(text, i + n, Len(text))
    ELSE LET later == {j \in (i + 1) .. (Len(text) + 1) :
                          MatchesAt(text, j, pattern, flags)}
         IN  IF later = {} THEN SubSeq(text, i, Len(text))
             ELSE LET j == CHOOSE q \in later : \A r \in later : q <= r
                  IN  SubSeq(text, i, j - 1)
                      \o StringReplaceFrom(text, j, pattern, flags, replacement)

\* text.replace(new RegExp(pattern, flags), replacement)
StringReplace(text, pattern, flags, replacement) ==
    StringReplaceFrom(text, 1, pattern, flags, replacement)

\* variant: one try block around the whole loop, so the first rule that
\* does not compile ends the loop
RECURSIVE applyRegexRules_builder_aborts(_, _, _, _)
applyRegexRules_builder_aborts(text, isUser, rules, k) ==
    IF k > Len(rules) THEN text
    ELSE LET rule == rules[k]
             flags == IF Len(rule.flags) = 0 THEN <<"g">> ELSE rule.flags
         IN  IF ~rule.enabled
             THEN applyRegexRules_builder_aborts(text, isUser, rules, k + 1)
             ELSE IF rule.appliesTo = "user" /\ ~isUser
             THEN applyRegexRules_builder_aborts(text, isUser, rules, k + 1)
             ELSE IF rule.appliesTo = "assistant" /\ isUser
             THEN applyRegexRules_builder_aborts(text, isUser, rules, k + 1)
             ELSE IF RegExpCompiles(rule.pattern, flags)
             THEN applyRegexRules_builder_aborts(
                      StringReplace(text, rule.pattern, flags, rule.replacement),
                      isUser, rules, k + 1)
             ELSE text

\* variant: the appliesTo tests are left out
RECURSIVE applyRegexRules_builder_ignoresScope(_, _, _, _)
applyRegexRules_builder_ignoresScope(text, isUser, rules, k) ==
    IF k > Len(rules) THEN text
    ELSE LET rule == rules[k]
             flags == IF Len(rule.flags) = 0 THEN <<"g">> ELSE rule.flags
         IN  IF ~rule.enabled
             THEN applyRegexRules_builder_ignoresScope(text, isUser, rules, k + 1)
             ELSE IF RegExpCompiles(rule.pattern, flags)
             THEN applyRegexRules_builder_ignoresScope(
                      StringReplace(text, rule.pattern, flags, rule.replacement),
                      isUser, rules, k + 1)
             ELSE applyRegexRules_builder_ignoresScope(text, isUser, rules, k + 1)

\* applyRegexRules(text, isUser) of the thread builder, from rule k on
RECURSIVE applyRegexRules_builder(_, _, _, _)
applyRegexRules_builder(text, isUser, rules, k) ==
    IF k > Len(rules) THEN text
    ELSE LET rule == rules[k]
             flags == IF Len(rule.flags) = 0 THEN <<"g">> ELSE rule.flags
         IN  IF ~rule.enabled
             THEN applyRegexRules_builder(text, isUser, rules, k + 1)
             ELSE IF rule.appliesTo = "user" /\ ~isUser
             THEN applyRegexRules_builder(text, isUser, rules, k + 1)
             ELSE IF rule.appliesTo = "assistant" /\ isUser
             THEN applyRegexRules_builder(text, isUser, rules, k + 1)
             ELSE IF RegExpCompiles(rule.pattern, flags)
             THEN applyRegexRules_builder(
                      StringReplace(text, rule.pattern, flags, rule.replacement),
                      isUser, rules, k + 1)
             ELSE applyRegexRules_builder(text, isUser, rules, k + 1)

(* ------------------------------ buildThread ---------------------------- *)

\* variant: the blocks are put in front of the thread built so far
RECURSIVE buildThread_prepend(_, _, _)
buildThread_prepend(messages, config, k) ==
    IF k > Len(messages) THEN <<>>
    ELSE LET msg == messages[k]
             isUser == msg.is_user
             header == IF isUser THEN config.userHeader ELSE config.assistantHeader
             tag == IF isUser THEN config.xmlUserTag ELSE config.xmlAssistantTag
             content == applyRegexRules_builder(msg.mes, isUser, config.regexRules, 1)
         IN  buildThread_prepend(messages, config, k + 1)
             \o <<[header |-> header, tag |-> tag, content |-> content]>>

\* the loop of buildThread from message k on: the blocks
\* `${header}\n<${tag}_message>${content}</${tag}_message>\n\n` in the order
\* they are appended to the thread, each kept as its three parts
RECURSIVE buildThread(_, _, _)
buildThread(messages, config, k) ==
    IF k > Len(messages) THEN <<>>
    ELSE LET msg == messages[k]
             isUser == msg.is_user
             header == IF isUser THEN config.userHeader ELSE config.assistantHeader
             tag == IF isUser THEN config.xmlUserTag ELSE config.xmlAssistantTag
             content == applyRegexRules_builder(msg.mes, isUser, config.regexRules, 1)
         IN  <<[header |-> header, tag |-> tag, content |-> content]>>
             \o buildThread(messages, config, k + 1)

\* the thread string the loop of buildThread builds from its blocks, before
\* the final trim
RECURSIVE ThreadString(_, _)
ThreadString(blocks, k) ==
    IF k > Len(blocks) THEN <<>>
    ELSE blocks[k].header \o NL \o OpenMessageTag(blocks[k].tag)
         \o blocks[k].content \o CloseMessageTag(blocks[k].tag) \o NL \o NL
         \o ThreadString(blocks, k + 1)

\* getLastUserMessageFormatted() of the thread builder, for the text raw that
\* getLastUserMessage() returned
getLastUserMessageFormatted(raw, config) ==
    IF Len(raw) = 0 THEN <<>>
    ELSE LET content == applyRegexRules_builder(raw, TRUE, config.regexRules, 1)
         IN  config.userHeader \o NL \o OpenMessageTag(config.xmlUserTag)
             \o content \o CloseMessageTag(config.xmlUserTag)

(* ------------------------ userscript: the generators ------------------- *)

\* variant: independent passes, every rule rewrites the original text and
\* the last rule that changed it wins
RECURSIVE applyRegexRules_userscript_independent(_, _, _)
applyRegexRules_userscript_independent(text, rules, k) ==
    IF k > Len(rules) THEN text
    ELSE LET rule == rules[k]
             flags == IF Len(rule.flags) = 0 THEN <<"g">> ELSE rule.flags
             later == applyRegexRules_userscript_independent(text, rules, k + 1)
         IN  IF later # text THEN later
             ELSE IF rule.enabled /\ RegExpCompiles(rule.pattern, flags)
             THEN StringReplace(text, rule.pattern, flags, rule.replacement)
             ELSE text

\* applyRegexRules(text) of the userscript, from rule k on
RECURSIVE applyRegexRules_userscript(_, _, _)
applyRegexRules_userscript(text, rules, k) ==
    IF k > Len(rules) THEN text
    ELSE LET rule == rules[k]
             flags == IF Len(rule.flags) = 0 THEN <<"g">> ELSE rule.flags
         IN  IF ~rule.enabled
             THEN applyRegexRules_userscript(text, rules, k + 1)
             ELSE IF RegExpCompiles(rule.pattern, flags)
             THEN applyRegexRules_userscript(
                      StringReplace(text, rule.pattern, flags, rule.replacement),
                      rules, k + 1)
             ELSE applyRegexRules_userscript(text, rules, k + 1)

\* the output generateHeaders accumulates from message k on, before the trim
RECURSIVE HeadersOutput(_, _, _)
HeadersOutput(messages, config, k) ==
    IF k > Len(messages) THEN <<>>
    ELSE LET msg == messages[k]
             header == IF msg.is_user THEN config.userHeader
                       ELSE config.assistantHeader
             content == applyRegexRules_userscript(msg.mes, config.regexRules, 1)
         IN  header \o NL \o content \o NL \o NL
             \o HeadersOutput(messages, config, k + 1)

generateHeaders(messages, config) == Trim(HeadersOutput(messages, config, 1))

\* the output generateXML accumulates from message k on, before the trim
RECURSIVE XMLOutput(_, _, _)
XMLOutput(messages, config, k) ==
    IF k > Len(messages) THEN <<>>
    ELSE LET msg == messages[k]
             tag == IF msg.is_user THEN config.xmlUserTag
                    ELSE config.xmlAssistantTag
             content == applyRegexRules_userscript(msg.mes, config.regexRules, 1)
         IN  OpenMessageTag(tag) \o content \o CloseMessageTag(tag) \o NL \o NL
             \o XMLOutput(messages, config, k + 1)

generateXML(messages, config) == Trim(XMLOutput(messages, config, 1))

generateLastMessage(messages, config) ==
    IF Len(messages) = 0 THEN <<>>
    ELSE LET lastMsg == messages[Len(messages)]
             tag == IF lastMsg.is_user THEN config.xmlUserTag
                    ELSE config.xmlAssistantTag
             content == applyRegexRules_userscript(lastMsg.mes, config.regexRules, 1)
         IN  OpenMessageTag(tag) \o content \o CloseMessageTag(tag)

\* lastUserMsg is what getLastUserMessage() returned: <<message>> or <<>>
generateLastUserMessage(lastUserMsg, config) ==
    IF Len(lastUserMsg) = 0 THEN <<>>
    ELSE LET content ==
                 applyRegexRules_userscript(lastUserMsg[1].mes, config.regexRules, 1)
         IN  OpenMessageTag(config.xmlUserTag) \o content
             \o CloseMessageTag(config.xmlUserTag)

(* ------------------------ threader: the formatter ---------------------- *)

\* the loop of applyRegex(text) of the threader, from rule k on
RECURSIVE applyRegex_threader(_, _, _)
applyRegex_threader(text, rules, k) ==
    IF k > Len(rules) THEN text
    ELSE LET rule == rules[k]
             flags == IF Len(rule.flags) = 0 THEN <<"g">> ELSE rule.flags
         IN  IF ~rule.enabled
             THEN applyRegex_threader(text, rules, k + 1)
             ELSE IF RegExpCompiles(rule.find, flags)
             THEN applyRegex_threader(
                      StringReplace(text, rule.find, flags, rule.replace),
                      rules, k + 1)
             ELSE applyRegex_threader(text, rules, k + 1)

\* messages.map(msg => ...) of getChatHistory: the formatted message
formatted_threader(msg, config) ==
    LET isUser == msg.is_user
        name == IF isUser THEN config.userName ELSE config.assistantName
        header == IF isUser THEN config.userHeader ELSE config.assistantHeader
        tag == IF isUser THEN config.xmlUserTag ELSE config.xmlAssistantTag
        text == applyRegex_threader(msg.mes, config.regexRules, 1)
        parts == (IF Len(header) > 0 THEN <<header>> ELSE <<>>)
                 \o <<name \o <<":", " ">> \o text>>
        content == Join(parts, NL, 1)
    IN  IF Len(tag) > 0
        THEN OpenMessageTag(tag) \o NL \o content \o NL \o CloseMessageTag(tag)
        ELSE content

\* return formatted.join("\n\n")
FormatMessages_threader(messages, config) ==
    Join([k \in 1 .. Len(messages) |-> formatted_threader(messages[k], config)],
         NL \o NL, 1)

(* ------------------------ handler: the formatter ----------------------- *)

\* applyRegex(text, rules) of the template handler, from rule k on
RECURSIVE applyRegex_handler(_, _, _)
applyRegex_handler(text, rules, k) ==
    IF k > Len(rules) THEN text
    ELSE LET rule == rules[k]
         IN  IF Len(rule.find) = 0
             THEN applyRegex_handler(text, rules, k + 1)
             ELSE IF RegExpCompiles(rule.find, <<"g", "i">>)
             THEN applyRegex_handler(
                      StringReplace(text, rule.find, <<"g", "i">>, rule.replace),
                      rules, k + 1)
             ELSE applyRegex_handler(text, rules, k + 1)

\* buildFormattedHistory(), for the messages getChatHistory() returned
buildFormattedHistory(messages, config) ==
    Join([k \in 1 .. Len(messages) |->
            LET msg == messages[k]
                isUser == msg.is_user
                name == IF isUser THEN config.userName ELSE config.assistantName
                header == IF isUser THEN config.userHeader
                          ELSE config.assistantHeader
                tag == IF isUser THEN config.xmlUserTag ELSE config.xmlAssistantTag
                content == applyRegex_handler(msg.mes, config.regexRules, 1)
            IN  OpenMessageTag(tag) \o header \o NL \o <<"*", "*">> \o name
                \o <<":", "*", "*">> \o NL \o content \o CloseMessageTag(tag)],
         NL \o NL, 1)

(* ------------------------ text history: the macros --------------------- *)

\* rule.trimOut.split('\n').filter(p => p.trim())
TrimPatterns(trimOut) ==
    SelectSeq(Split(trimOut, "\n", 1, <<>>), LAMBDA pat : Len(Trim(pat)) > 0)

\* the inner loop over the trim patterns, from pattern k on
RECURSIVE ApplyTrimPatterns(_, _, _)
ApplyTrimPatterns(result, trimPatterns, k) ==
    IF k > Len(trimPatterns) THEN result
    ELSE IF RegExpCompiles(trimPatterns[k], <<"g">>)
    THEN ApplyTrimPatterns(StringReplace(result, trimPatterns[k], <<"g">>, <<>>),
                           trimPatterns, k + 1)
    ELSE ApplyTrimPatterns(result, trimPatterns, k + 1)

\* applyRegexRules(text) of the text history, from rule k on
RECURSIVE applyRegexRules_texthistory(_, _, _)
applyRegexRules_texthistory(text, rules, k) ==
    IF k > Len(rules) THEN text
    ELSE LET rule == rules[k]
         IN  IF ~rule.enabled \/ Len(rule.findRegex) = 0
             THEN applyRegexRules_texthistory(text, rules, k + 1)
             ELSE IF RegExpCompiles(rule.findRegex, <<"g">>)
             THEN applyRegexRules_texthistory(
                      ApplyTrimPatterns(
                          StringReplace(text, rule.findRegex, <<"g">>,
                                        rule.replaceWith),
                          TrimPatterns(rule.trimOut), 1),
                      rules, k + 1)
             ELSE applyRegexRules_texthistory(text, rules, k + 1)

\* the history macros the model covers
HistoryMacros ==
    {"headerHistoryR", "colonHistoryR", "xmlHistoryR", "bracketHistoryR",
     "numberedHistoryR", "rawHistoryR"}

\* what messages.map(...) of the macro yields for the message at index k
MacroBlock(macro, msg, k, c) ==
    LET name == IF msg.is_user THEN c.userName ELSE c.assistantName
        header == IF msg.is_user THEN c.userHeader ELSE c.assistantHeader
        tag == IF msg.is_user THEN c.xmlUserTag ELSE c.xmlAssistantTag
    IN  CASE macro = "headerHistoryR" -> header \o NL \o msg.mes
          [] macro = "colonHistoryR" -> name \o <<":", " ">> \o msg.mes
          [] macro = "xmlHistoryR" ->
                 <<"<">> \o tag \o <<">">> \o NL \o msg.mes \o NL
                 \o <<"<", "/">> \o tag \o <<">">>
          [] macro = "bracketHistoryR" ->
                 <<"[">> \o name \o <<"]">> \o NL \o msg.mes \o NL
                 \o <<"[", "/">> \o name \o <<"]">>
          [] macro = "numberedHistoryR" ->
                 NumberToString(k) \o <<".", " ">> \o name \o <<":", " ">>
                 \o msg.mes
          [] macro = "rawHistoryR" -> msg.mes

\* the string `raw` the macro joins from the messages getChatHistory()
\* returned
MacroRaw(macro, messages, c) ==
    Join([k \in 1 .. Len(messages) |-> MacroBlock(macro, messages[k], k, c)],
         IF macro = "rawHistoryR"
         THEN NL \o NL \o <<"-", "-", "-">> \o NL \o NL ELSE NL \o NL,
         1)

\* the macro's return value: applyRegexRules(raw)
MacroOutput(macro, messages, c) ==
    applyRegexRules_texthistory(MacroRaw(macro, messages, c), c.regexRules, 1)

\* the count parseInt(args) || 10 falls back to
DefaultLastN == 10

\* a.slice(start): from index start, counted from the end when start < 0
Slice(a, start) ==
    LET from == IF start < 0
                THEN (IF Len(a) + start < 0 THEN 0 ELSE Len(a) + start)
                ELSE (IF start > Len(a) THEN Len(a) ELSE start)
    IN  SubSeq(a, from + 1, Len(a))

\* variant: one message more than n is taken
LastNMessages_oneMore(messages, args) == Slice(messages, 0 - OrDefault(parseInt(args), DefaultLastN) - 1)

\* n = parseInt(args) || 10; messages.slice(-n)
LastNMessages(messages, args) == Slice(messages, 0 - OrDefault(parseInt(args), DefaultLastN))

\* the lastNR macro: `${name}: ${msg.mes}` of the sliced messages joined,
\* then applyRegexRules(raw)
LastNOutput(messages, args, c) ==
    LET sliced == LastNMessages(messages, args)
    IN  applyRegexRules_texthistory(
            Join([k \in 1 .. Len(sliced) |->
                      MacroBlock("colonHistoryR", sliced[k], k, c)],
                 NL \o NL, 1),
            c.regexRules, 1)

(* ------------------------------ saveSetting ---------------------------- *)
\* the settings entry as the call leaves it

saveSetting(i, es, key, value) ==
    CASE i = "userscript"  ->
           Entry(SetKey(getConfig_userscript(es), key, value))
      [] i = "threader"    ->
           Entry(SetKey((IF ~es.present THEN Entry(defaultSettings_threader)
                                        ELSE es).obj, key, value))
      [] i = "builder"     ->
           Entry(SetKey((IF ~es.present THEN Entry(EmptyObject)
                                        ELSE es).obj, key, value))
      [] i = "handler"     -> Entry(SetKey(es.obj, key, value))
      [] i = "texthistory" -> Entry(SetKey(es.obj, key, value))

\* the settings key of the "exclude / remove last user message" checkbox
ExcludeKey(i) ==
    CASE i = "userscript" -> "excludeLastUser"
      [] i = "threader"   -> "removeLastUserFromHistory"
      [] i = "builder"    -> "excludeLastUserFromThread"
      [] i = "handler"    -> "removeLastUserFromHistory"

(* ------------------------------- the state ----------------------------- *)

\* the conversation source when there is none (the page has no chat
\* container, ctx.chat is undefined) is the sequence <<[missing |-> TRUE]>>
IsMissing(source) == Len(source) = 1 /\ "missing" \in DOMAIN source[1]

\* extractChatFromPage(): the messages of the page, their text trimmed
extractChatFromPage(page) ==
    IF IsMissing(page) THEN <<>>
    ELSE [k \in 1 .. Len(page) |-> [page[k] EXCEPT !.mes = Trim(page[k].mes)]]

\* ctx.chat || []
OrEmptyArray(source) == IF IsMissing(source) THEN <<>> ELSE source

\* the array defaultSettings.regexRules as the module is evaluated: empty
\* (arr holds its elements), and no settings object refers to it (shared)
NoDefaultRules == [arr |-> <<>>, shared |-> FALSE]

\* nothing returned yet, or the stores changed since the last invocation
NoRet ==
    [op |-> "none", messages |-> <<>>, afterSkip |-> <<>>,
     afterExclude |-> <<>>, blocks |-> <<>>, lastUser |-> <<>>,
     lastUserMes |-> <<>>, config |-> EmptyObject, out |-> EmptyObject,
     arg |-> <<>>, threw |-> FALSE, value |-> 0]

\* what a call of getChatHistory that returned h leaves to report, with the
\* configuration object the call worked with
HistoryRetWith(op, h, config) ==
    [NoRet EXCEPT !.op = op, !.messages = h.messages,
                  !.afterSkip = h.afterSkip, !.afterExclude = h.afterExclude,
                  !.config = config]

\* The module has been evaluated: no settings entry is saved yet and the
\* conversation is empty.  The userscript has no deferred initialisation.
Init ==
    /\ impl \in Impls
    /\ phase = IF impl = "userscript" THEN "ready" ELSE "loaded"
    /\ hostChat = <<>>
    /\ chat = <<>>
    /\ extension_settings = [present |-> FALSE, obj |-> EmptyObject]
    /\ ret = NoRet
    /\ defaultRegexRules = NoDefaultRules

(* ------------------------------ start-up ------------------------------- *)

\* jQuery(async () => { ... }) of custom-threader
jQueryInit_threader ==
    /\ impl = "threader" /\ phase = "loaded"
    /\ LET es1 == IF ~extension_settings.present
                  THEN Entry(defaultSettings_threader) ELSE extension_settings
       IN  extension_settings' = Entry(ObjectAssign(defaultSettings_threader, es1.obj))
    /\ defaultRegexRules' =
           IF extension_settings.present
              /\ "regexRules" \in DOMAIN extension_settings.obj
           THEN defaultRegexRules
           ELSE [defaultRegexRules EXCEPT !.shared = TRUE]
    /\ phase' = "ready"
    /\ UNCHANGED <<impl, hostChat, chat, ret>>

\* jQuery(async () => { createSettingsUI(); registerMacro(); })
jQueryInit_builder ==
    /\ impl = "builder" /\ phase = "loaded"
    /\ extension_settings' = getConfig_builder(extension_settings).extension_settings
    /\ phase' = "ready"
    /\ UNCHANGED <<defaultRegexRules, impl, hostChat, chat, ret>>

\* init() of the template handler
init_handler ==
    /\ impl = "handler" /\ phase = "loaded"
    /\ extension_settings' = IF extension_settings.present THEN extension_settings
                              ELSE Entry(defaultSettings_handler)
    /\ defaultRegexRules' =
           IF extension_settings.present THEN defaultRegexRules
           ELSE [defaultRegexRules EXCEPT !.shared = TRUE]
    /\ phase' = "ready"
    /\ UNCHANGED <<impl, hostChat, chat, ret>>

\* loadSettings() of jQuery(async () => { loadSettings(); ... })
loadSettings ==
    /\ impl = "texthistory" /\ phase = "loaded"
    /\ LET es1 == IF ~extension_settings.present
                  THEN Entry(EmptyObject) ELSE extension_settings
       IN  extension_settings' = Entry(ObjectAssign(defaultSettings_texthistory, es1.obj))
    /\ phase' = "ready"
    /\ UNCHANGED <<defaultRegexRules, impl, hostChat, chat, ret>>

(* ------------------------------- the host ------------------------------ *)

\* the host appends a message to the conversation; implementations that
\* import the host array see it at once, the others at their next snapshot
HostAppend(is_user, mes) ==
    /\ Len(hostChat) < MaxTurns
    /\ hostChat' = Append(hostChat, [id |-> Len(hostChat) + 1,
                                      is_user |-> is_user, mes |-> mes])
    /\ chat' = IF impl \in SnapshotImpls THEN chat ELSE hostChat'
    /\ ret' = NoRet
    /\ UNCHANGED <<defaultRegexRules, impl, phase, extension_settings>>

(* --------------------------- settings surface -------------------------- *)

\* "#cthr-maxTokens" input: saveSetting("maxTokens", parseInt(val) || 0)
OnMaxTokensInput(typed) ==
    /\ phase = "ready"
    /\ extension_settings' =
           saveSetting(impl, extension_settings, "maxTokens",
                       OrDefault(parseInt(typed), 0))
    /\ ret' = NoRet
    /\ UNCHANGED <<defaultRegexRules, impl, phase, hostChat, chat>>

\* "#cthr-charsPerToken" input: saveSetting("charsPerToken", parseInt(val) || 4)
OnCharsPerTokenInput(typed) ==
    /\ phase = "ready"
    /\ extension_settings' =
           saveSetting(impl, extension_settings, "charsPerToken",
                       OrDefault(parseInt(typed), 4))
    /\ ret' = NoRet
    /\ UNCHANGED <<defaultRegexRules, impl, phase, hostChat, chat>>

\* "#cthr-skipLastAssistant" checkbox
OnSkipLastAssistantChange(checked) ==
    /\ phase = "ready"
    /\ extension_settings' =
           saveSetting(impl, extension_settings, "skipLastAssistant", checked)
    /\ ret' = NoRet
    /\ UNCHANGED <<defaultRegexRules, impl, phase, hostChat, chat>>

\* "#cthr-softTokenLimit" checkbox
OnSoftTokenLimitChange(checked) ==
    /\ phase = "ready" /\ impl # "texthistory"
    /\ extension_settings' =
           saveSetting(impl, extension_settings, "softTokenLimit", checked)
    /\ ret' = NoRet
    /\ UNCHANGED <<defaultRegexRules, impl, phase, hostChat, chat>>

\* "#cthr-excludeLastUser" / "#cthr-removeLastUserFromHistory" checkbox
OnExcludeLastUserChange(checked) ==
    /\ phase = "ready" /\ impl # "texthistory"
    /\ extension_settings' =
           saveSetting(impl, extension_settings, ExcludeKey(impl), checked)
    /\ ret' = NoRet
    /\ UNCHANGED <<defaultRegexRules, impl, phase, hostChat, chat>>

(* ------------------------------ the pipeline --------------------------- *)

\* replaceMacros(template) of the userscript: updateChatData(), then the
\* four generators
replaceMacros ==
    /\ impl = "userscript" /\ phase = "ready"
    /\ LET c == extractChatFromPage(hostChat)
           config == getConfig_userscript(extension_settings)
           h == getChatHistory_userscript(c, config)
           lastUserMsg == getLastUserMessage_userscript(h.chat)
       IN  /\ chat' = h.chat
           /\ ret' = [HistoryRetWith("replaceMacros", h, config) EXCEPT
                         !.lastUser = lastUserMsg,
                         !.out =
                             [headers |-> generateHeaders(h.messages, config),
                              history |-> generateXML(h.messages, config),
                              lastMessage |->
                                  generateLastMessage(h.messages, config),
                              lastUserMessage |->
                                  generateLastUserMessage(lastUserMsg, config)]]
    /\ UNCHANGED <<defaultRegexRules, impl, phase, hostChat, extension_settings>>

\* the historyEXT macro: () => getChatHistory()
historyEXT ==
    /\ impl = "threader" /\ phase = "ready"
    /\ LET config == getConfig_threader(extension_settings)
           h == getChatHistory_threader(chat, config)
       IN  /\ chat' = h.chat
           /\ hostChat' = h.chat
           /\ ret' = [HistoryRetWith("historyEXT", h, config) EXCEPT
                         !.out = [historyEXT |->
                                      FormatMessages_threader(h.messages, config)]]
    /\ UNCHANGED <<defaultRegexRules, impl, phase, extension_settings>>

\* the lastmessageEXT macro: () => getLastUserMessage()
lastmessageEXT ==
    /\ impl = "threader" /\ phase = "ready"
    /\ ret' = [NoRet EXCEPT !.op = "lastmessageEXT",
                            !.lastUserMes = getLastUserMessage_threader(chat),
                            !.out = [lastmessageEXT |->
                                         getLastUserMessage_threader(chat)]]
    /\ UNCHANGED <<defaultRegexRules, impl, phase, hostChat, chat, extension_settings>>

\* the thread macro: () => buildThread()
thread ==
    /\ impl = "builder" /\ phase = "ready"
    /\ LET g == getConfig_builder(extension_settings)
           h == getChatHistory_builder(chat, g.config)
       IN  /\ chat' = h.chat
           /\ hostChat' = h.chat
           /\ extension_settings' = g.extension_settings
           /\ ret' = [HistoryRetWith("thread", h, g.config) EXCEPT
                         !.blocks = buildThread(h.messages, g.config, 1),
                         !.out = [thread |->
                                      Trim(ThreadString(
                                          buildThread(h.messages, g.config, 1),
                                          1))]]
    /\ UNCHANGED <<defaultRegexRules, impl, phase>>

\* the lastusermessage macro: () => getLastUserMessage()
lastusermessage ==
    /\ impl = "builder" /\ phase = "ready"
    /\ ret' = [NoRet EXCEPT !.op = "lastusermessage",
                            !.lastUserMes = getLastUserMessage_builder(chat),
                            !.out = [lastusermessage |->
                                         getLastUserMessage_builder(chat)]]
    /\ UNCHANGED <<defaultRegexRules, impl, phase, hostChat, chat, extension_settings>>

\* the lastusermessageformatted macro: () => getLastUserMessageFormatted()
lastusermessageformatted ==
    /\ impl = "builder" /\ phase = "ready"
    /\ LET g == getConfig_builder(extension_settings)
           raw == getLastUserMessage_builder(chat)
       IN  /\ extension_settings' = g.extension_settings
           /\ ret' = [NoRet EXCEPT
                         !.op = "lastusermessageformatted",
                         !.lastUserMes = raw,
                         !.config = g.config,
                         !.out = [lastusermessageformatted |->
                                      getLastUserMessageFormatted(raw, g.config)]]
    /\ UNCHANGED <<defaultRegexRules, impl, phase, hostChat, chat>>

\* onPromptReady(eventData): chat = ctx.chat || [], then the history and the
\* last user message
onPromptReady ==
    /\ impl = "handler" /\ phase = "ready"
    /\ LET c == OrEmptyArray(hostChat)
           config == getConfig_handler(extension_settings)
           h == getChatHistory_handler(c, config)
       IN  /\ chat' = h.chat
           /\ hostChat' = IF IsMissing(hostChat) THEN hostChat ELSE h.chat
           /\ ret' = [HistoryRetWith("onPromptReady", h, config) EXCEPT
                         !.lastUserMes = getLastUserMessage_handler(h.chat),
                         !.out =
                             [history |->
                                  buildFormattedHistory(h.messages, config),
                              lastMessage |->
                                  getLastUserMessage_handler(h.chat)]]
    /\ UNCHANGED <<defaultRegexRules, impl, phase, extension_settings>>

\* a history macro of registerMacros: getChatHistory(), the blocks joined
\* into raw, then applyRegexRules(raw)
historyR(macro) ==
    /\ impl = "texthistory" /\ phase = "ready"
    /\ LET config == getConfig_texthistory(extension_settings)
           h == getChatHistory_texthistory(chat, config)
       IN  /\ chat' = h.chat
           /\ hostChat' = h.chat
           /\ ret' = [HistoryRetWith("historyR", h, config) EXCEPT
                         !.out = (macro :> MacroOutput(macro, h.messages, config))]
    /\ UNCHANGED <<defaultRegexRules, impl, phase, extension_settings>>

\* the lastNR macro called with the argument text args (a missing argument
\* parses like text with no leading number)
lastNR(args) ==
    /\ impl = "texthistory" /\ phase = "ready"
    /\ LET config == getConfig_texthistory(extension_settings)
           h == getChatHistory_texthistory(chat, config)
       IN  /\ chat' = h.chat
           /\ hostChat' = h.chat
           /\ ret' = [HistoryRetWith("lastNR", h, config) EXCEPT
                         !.arg = <<args>>,
                         !.out = [lastNR |->
                                      LastNOutput(h.messages, args, config)]]
    /\ UNCHANGED <<defaultRegexRules, impl, phase, extension_settings>>

Next ==
    \/ jQueryInit_threader
    \/ jQueryInit_builder
    \/ init_handler
    \/ loadSettings
    \/ \E is_user \in BOOLEAN, mes \in Texts : HostAppend(is_user, mes)
    \/ \E typed \in TypedValues : OnMaxTokensInput(typed)
    \/ \E typed \in TypedValues : OnCharsPerTokenInput(typed)
    \/ \E checked \in BOOLEAN : OnSkipLastAssistantChange(checked)
    \/ \E checked \in BOOLEAN : OnSoftTokenLimitChange(checked)
    \/ \E checked \in BOOLEAN : OnExcludeLastUserChange(checked)
    \/ replaceMacros
    \/ historyEXT
    \/ lastmessageEXT
    \/ thread
    \/ lastusermessage
    \/ lastusermessageformatted
    \/ onPromptReady
    \/ \E macro \in HistoryMacros : historyR(macro)
    \/ \E args \in TypedValues : lastNR(args)

Spec == Init /\ [][Next]_vars

(* ======================= properties of the selector ==================== *)

\* the configuration an invocation in the current state reads
Config ==
    CASE impl = "userscript"  -> getConfig_userscript(extension_settings)
      [] impl = "threader"    -> getConfig_threader(extension_settings)
      [] impl = "builder"     -> getConfig_builder(extension_settings).config
      [] impl = "handler"     -> getConfig_handler(extension_settings)
      [] impl = "texthistory" -> getConfig_texthistory(extension_settings)

estimateTokens(text) ==
    CASE impl = "userscript"  -> estimateTokens_userscript(text, Config)
      [] impl = "threader"    -> estimateTokens_threader(text, Config)
      [] impl = "builder"     -> estimateTokens_builder(text, Config)
      [] impl = "handler"     -> estimateTokens_handler(text, Config)
      [] impl = "texthistory" -> estimateTokens_texthistory(text, Config)

\* getChatHistory of implementation i on the conversation c
select(i, c, config) ==
    CASE i = "userscript"  -> getChatHistory_userscript(c, config).messages
      [] i = "threader"    -> getChatHistory_threader(c, config).messages
      [] i = "builder"     -> getChatHistory_builder(c, config).messages
      [] i = "handler"     -> getChatHistory_handler(c, config).messages
      [] i = "texthistory" -> getChatHistory_texthistory(c, config).messages

\* the last invocation ran getChatHistory
IsHistoryOp ==
    ret.op \in {"replaceMacros", "historyEXT", "thread", "onPromptReady",
               "historyR", "lastNR"}

SoftMode == impl # "texthistory" /\ Config.softTokenLimit
ExcludeOn == impl # "texthistory" /\ Config[ExcludeKey(impl)]

\* sum of the estimates of the messages at positions from .. Len(msgs)
RECURSIVE SumFrom(_, _)
SumFrom(msgs, from) ==
    IF from > Len(msgs) THEN 0
    ELSE estimateTokens(msgs[from].mes) + SumFrom(msgs, from + 1)

\* the positions of user messages in a sequence
UserPositions(msgs) == {i \in 1 .. Len(msgs) : msgs[i].is_user}

\* the greatest element of a non-empty set of integers
Greatest(S) == CHOOSE i \in S : \A j \in S : j <= i

\* C1 -- hard-mode budget: with maxTokens > 0 and the soft limit off, the
\* estimates of the returned messages sum to at most maxTokens.
C1_HardBudget ==
    (IsHistoryOp /\ Config.maxTokens > 0 /\ ~SoftMode)
        => SumFrom(ret.messages, 1) <= Config.maxTokens

\* a hard-mode selection that kept some messages and cut others
C1_Witness ==
    /\ IsHistoryOp /\ Config.maxTokens > 0 /\ ~SoftMode
    /\ Len(ret.messages) >= 1
    /\ Len(ret.messages) < Len(ret.afterExclude)
    /\ SumFrom(ret.messages, 1) > 0

\* positions of the filtered sequence at which the running total, counted
\* from the most recent message, has reached maxTokens
CrossingPositions(f) ==
    {k \in 1 .. Len(f) : SumFrom(f, k) >= Config.maxTokens}

\* C2 -- soft-mode crossing: with maxTokens > 0 and the soft limit on, the
\* result is the part of the filtered sequence from the first message (going
\* backwards) at which the running total reaches maxTokens up to the most
\* recent one, and the whole filtered sequence when the total never gets
\* there.
C2_SoftCrossing ==
    (IsHistoryOp /\ Config.maxTokens > 0 /\ SoftMode)
        => LET f == ret.afterExclude
               X == CrossingPositions(f)
           IN  ret.messages =
                   IF X = {} THEN f ELSE SubSeq(f, Greatest(X), Len(f))

\* a soft-mode selection whose crossing message is not the most recent one
\* and that leaves an older message out
C2_Witness ==
    /\ IsHistoryOp /\ Config.maxTokens > 0 /\ SoftMode
    /\ CrossingPositions(ret.afterExclude) # {}
    /\ Greatest(CrossingPositions(ret.afterExclude)) > 1
    /\ Len(ret.messages) >= 2

\* C3 -- oversized single turn: a filtered sequence of one message whose
\* estimate exceeds maxTokens (> 0) gives the empty list in hard mode and
\* that one message in soft mode.
C3_OversizedSingleTurn ==
    (/\ IsHistoryOp /\ Config.maxTokens > 0
     /\ Len(ret.afterExclude) = 1
     /\ estimateTokens(ret.afterExclude[1].mes) > Config.maxTokens)
        => ret.messages = IF SoftMode THEN ret.afterExclude ELSE <<>>

\* the soft-mode case has happened
C3_Witness ==
    /\ IsHistoryOp /\ Config.maxTokens > 0 /\ SoftMode
    /\ Len(ret.afterExclude) = 1
    /\ estimateTokens(ret.afterExclude[1].mes) > Config.maxTokens
    /\ Len(ret.messages) = 1

\* the conversation ends in an assistant message and the skip option is on
EndsInAssistant(c) == Len(c) > 0 /\ ~c[Len(c)].is_user

\* C4 as stated -- skip-last-other equivalence: with the skip option on and
\* a conversation ending in an assistant message, the selection equals the
\* selection of the conversation without its last message under the same
\* configuration.
C4_SkipEquivalenceSameConfig ==
    (IsHistoryOp /\ Config.skipLastAssistant /\ EndsInAssistant(chat))
        => ret.messages = select(impl, SliceDropLast(chat), Config)

\* C4 amended -- the selection equals the selection of the conversation
\* without its last message when the skip option is off for the shortened
\* conversation (the other settings being the same).
C4_SkipEquivalence ==
    (IsHistoryOp /\ Config.skipLastAssistant /\ EndsInAssistant(chat))
        => ret.messages =
              select(impl, SliceDropLast(chat),
                     [Config EXCEPT !.skipLastAssistant = FALSE])

\* a selection of a conversation that ends in two assistant messages
C4_Witness ==
    /\ IsHistoryOp /\ Config.skipLastAssistant /\ EndsInAssistant(chat)
    /\ EndsInAssistant(SliceDropLast(chat))
    /\ Len(ret.messages) >= 1

\* C5 -- drop-last-user: with the exclude option on, the sequence after the
\* exclude step is the sequence after the skip step without its user message
\* of highest position, everything else kept in order; it is the same
\* sequence when there is no user message.
C5_DropLastUser ==
    (IsHistoryOp /\ ExcludeOn)
        => LET a == ret.afterSkip
               U == UserPositions(a)
           IN  IF U = {} THEN ret.afterExclude = a
               ELSE /\ Len(ret.afterExclude) = Len(a) - 1
                    /\ \A j \in 1 .. (Greatest(U) - 1) : ret.afterExclude[j] = a[j]
                    /\ \A j \in Greatest(U) .. (Len(a) - 1) :
                           ret.afterExclude[j] = a[j + 1]

\* the exclude step removed the later of two user messages
C5_Witness ==
    /\ IsHistoryOp /\ ExcludeOn
    /\ Cardinality(UserPositions(ret.afterSkip)) >= 2
    /\ Cardinality(UserPositions(ret.afterExclude)) >= 1
    /\ Len(ret.afterExclude) = Len(ret.afterSkip) - 1

\* the sequence the skip and exclude steps are to produce from c
Filtered(c, skip, exclude) ==
    LET a == IF skip /\ EndsInAssistant(c) THEN SubSeq(c, 1, Len(c) - 1) ELSE c
        U == UserPositions(a)
    IN  IF exclude /\ U # {}
        THEN [j \in 1 .. (Len(a) - 1) |-> IF j < Greatest(U) THEN a[j] ELSE a[j + 1]]
        ELSE a

\* C6 -- unlimited budget: with maxTokens <= 0 the result is the sequence the
\* skip and exclude steps produce, whatever softTokenLimit and charsPerToken.
C6_Unlimited ==
    (IsHistoryOp /\ Config.maxTokens <= 0)
        => /\ ret.messages = ret.afterExclude
           /\ ret.messages = Filtered(chat, Config.skipLastAssistant, ExcludeOn)

\* a negative maxTokens with the soft limit on and messages of non-zero
\* estimate returned
C6_Witness ==
    /\ IsHistoryOp /\ Config.maxTokens < 0 /\ SoftMode
    /\ Len(ret.messages) >= 2
    /\ estimateTokens(ret.messages[1].mes) > 0

\* C7 -- order preservation: the returned messages are a subsequence of the
\* conversation (each is a message of the conversation, positions strictly
\* increase, so none appears twice and none is reordered), and the thread
\* builder emits one block per returned message, in the same order.
C7_OrderPreserved ==
    /\ IsHistoryOp =>
          LET m == ret.messages IN
          /\ \A k \in 1 .. Len(m) :
                 m[k].id \in 1 .. Len(hostChat) /\ hostChat[m[k].id] = m[k]
          /\ \A k, l \in 1 .. Len(m) : k < l => m[k].id < m[l].id
    /\ ret.op = "thread" =>
          /\ Len(ret.blocks) = Len(ret.messages)
          /\ \A k \in 1 .. Len(ret.messages) :
                 LET msg == ret.messages[k] IN
                 /\ ret.blocks[k].header =
                        IF msg.is_user THEN Config.userHeader
                        ELSE Config.assistantHeader
                 /\ ret.blocks[k].tag =
                        IF msg.is_user THEN Config.xmlUserTag
                        ELSE Config.xmlAssistantTag
                 /\ ret.blocks[k].content =
                        applyRegexRules_builder(msg.mes, msg.is_user,
                                                Config.regexRules, 1)

\* a windowed thread of two messages that differ in role and in text
C7_Witness ==
    /\ ret.op = "thread" /\ Config.maxTokens > 0
    /\ Len(ret.messages) = 2 /\ Len(ret.messages) < Len(hostChat)
    /\ ret.messages[1].is_user # ret.messages[2].is_user
    /\ ret.messages[1].mes # ret.messages[2].mes

\* the last invocation ran getLastUserMessage
IsLastUserOp ==
    ret.op \in {"replaceMacros", "lastmessageEXT", "lastusermessage", "onPromptReady"}

\* C8 -- the last-turn query bypasses selection: getLastUserMessage returns
\* the user message of highest position in the unfiltered conversation (null
\* or the empty text when there is none), whatever the selection settings.
C8_LastUserBypassesSelection ==
    IsLastUserOp =>
        LET U == UserPositions(hostChat) IN
        IF impl = "userscript"
        THEN ret.lastUser = IF U = {} THEN <<>> ELSE <<hostChat[Greatest(U)]>>
        ELSE ret.lastUserMes = IF U = {} THEN <<>> ELSE hostChat[Greatest(U)].mes

\* the selection of the same invocation left the last user message out
C8_Witness ==
    /\ ret.op \in {"replaceMacros", "onPromptReady"}
    /\ ExcludeOn /\ Config.maxTokens > 0
    /\ UserPositions(hostChat) # {}
    /\ Len(hostChat[Greatest(UserPositions(hostChat))].mes) > 0
    /\ \A k \in 1 .. Len(ret.messages) :
           ret.messages[k] # hostChat[Greatest(UserPositions(hostChat))]
    /\ UserPositions(ret.messages) # {}

\* C9 -- the selector does not mutate its input: a call of getChatHistory
\* leaves the conversation array with the length and the elements it had.
C9_SelectorKeepsChat ==
    [][IsHistoryOp' => (hostChat' = hostChat /\ chat' = hostChat)]_vars

\* a call that removed a user message by splice, the conversation intact
C9_Witness ==
    /\ ret.op \in {"historyEXT", "thread"}
    /\ Len(ret.afterExclude) < Len(ret.afterSkip)
    /\ Len(ret.afterSkip) = Len(chat)
    /\ chat = hostChat

defaultSettings(i) ==
    CASE i = "userscript"  -> defaultSettings_userscript
      [] i = "threader"    -> defaultSettings_threader
      [] i = "builder"     -> defaultSettings_builder
      [] i = "handler"     -> defaultSettings_handler
      [] i = "texthistory" -> defaultSettings_texthistory

\* longest conversation while the settings are exercised
MaxSettingsTurns == 1

\* the program with a short conversation: every settings handler and every
\* invocation, the host appending at most MaxSettingsTurns messages
NextSettings ==
    \/ jQueryInit_threader
    \/ jQueryInit_builder
    \/ init_handler
    \/ loadSettings
    \/ \E is_user \in BOOLEAN, mes \in Texts :
           Len(hostChat) < MaxSettingsTurns /\ HostAppend(is_user, mes)
    \/ \E typed \in TypedValues : OnMaxTokensInput(typed)
    \/ \E typed \in TypedValues : OnCharsPerTokenInput(typed)
    \/ \E checked \in BOOLEAN : OnSkipLastAssistantChange(checked)
    \/ \E checked \in BOOLEAN : OnSoftTokenLimitChange(checked)
    \/ \E checked \in BOOLEAN : OnExcludeLastUserChange(checked)
    \/ replaceMacros
    \/ historyEXT
    \/ lastmessageEXT
    \/ thread
    \/ lastusermessage
    \/ lastusermessageformatted
    \/ onPromptReady
    \/ \E macro \in HistoryMacros : historyR(macro)

SpecSettings == Init /\ [][NextSettings]_vars

\* this step is saveSetting(key, value): the next invocation reads value
\* for key, and for every other key what it would have read before
SavedThen(key, value) ==
    /\ Config'[key] = value
    /\ \A k \in DOMAIN Config \ {key} : Config'[k] = Config[k]

\* C11 -- fresh configuration: before anything is saved an invocation reads
\* the hardcoded defaults; a saveSetting(key, value) step makes the next
\* invocation read value for key and leaves what it reads for every other
\* key; no other step changes what an invocation reads; and an invocation
\* works with exactly the configuration the store holds when it starts.
C11_FreshConfiguration ==
    /\ (phase = "ready" => Config = defaultSettings(impl))
    /\ [][ /\ (phase = "loaded" /\ phase' = "ready"
                => Config' = defaultSettings(impl))
           /\ \A typed \in TypedValues :
                /\ OnMaxTokensInput(typed)
                     => SavedThen("maxTokens", OrDefault(parseInt(typed), 0))
                /\ OnCharsPerTokenInput(typed)
                     => SavedThen("charsPerToken", OrDefault(parseInt(typed), 4))
           /\ \A checked \in BOOLEAN :
                /\ OnSkipLastAssistantChange(checked)
                     => SavedThen("skipLastAssistant", checked)
                /\ OnSoftTokenLimitChange(checked)
                     => SavedThen("softTokenLimit", checked)
                /\ OnExcludeLastUserChange(checked)
                     => SavedThen(ExcludeKey(impl), checked)
           /\ (phase = "ready" /\ (hostChat' # hostChat \/ ret'.op # "none")
                => Config' = Config)
           /\ (phase = "ready" /\ IsHistoryOp' /\ ret' # ret
                => ret'.config = Config) ]_vars

\* an invocation has worked with values saved for three different keys
C11_Witness ==
    /\ IsHistoryOp
    /\ ret.config.maxTokens = 2
    /\ ret.config.charsPerToken = 1
    /\ ~ret.config.skipLastAssistant

(* ========================= rules and formatting ======================== *)
\* The pipeline over conversations and settings chosen to exercise the
\* rewrite rules and the formatters: every rule list and every text setting
\* below can be built through the settings panel.

\* most rules in the list, and longest conversation
MaxRules == 2
MaxRuleTurns == 2

\* find pattern, replacement and enabled flag of the rules tried: two rules
\* that do not commute, a pattern that does not compile, a pattern that
\* matches the empty string, and a disabled rule
RuleShapes ==
    {<<<<"a">>, <<"b">>, TRUE>>, <<<<"b">>, <<>>, TRUE>>,
     <<<<"(">>, <<"b">>, TRUE>>, <<<<"^">>, <<"b">>, TRUE>>,
     <<<<"a">>, <<"b">>, FALSE>>}

\* the rule objects of each implementation
RuleSet(i) ==
    CASE i = "userscript" ->
             {[enabled |-> sh[3], pattern |-> sh[1], replacement |-> sh[2],
               flags |-> <<"g">>] : sh \in RuleShapes}
      [] i = "threader" ->
             {[find |-> sh[1], replace |-> sh[2], flags |-> <<"g">>,
               enabled |-> sh[3]] : sh \in RuleShapes}
      [] i = "builder" ->
             {[pattern |-> sh[1], replacement |-> sh[2], flags |-> <<"g">>,
               appliesTo |-> scope, enabled |-> sh[3]] :
                 sh \in RuleShapes, scope \in {"both", "user", "assistant"}}
      [] i = "handler" ->
             {[find |-> sh[1], replace |-> sh[2]] : sh \in RuleShapes}
             \cup {[find |-> <<>>, replace |-> <<"b">>]}
      [] i = "texthistory" ->
             {[enabled |-> sh[3], findRegex |-> sh[1], replaceWith |-> sh[2],
               trimOut |-> <<>>] : sh \in RuleShapes}
             \cup {[enabled |-> TRUE, findRegex |-> <<"a">>,
                    replaceWith |-> <<"b">>, trimOut |-> <<"(", "\n", "b">>]}

\* the text settings tried: the defaults, or no headers and no wrapper tags
TextSettings ==
    {EmptyObject,
     [userHeader |-> <<>>, assistantHeader |-> <<>>,
      xmlUserTag |-> <<>>, xmlAssistantTag |-> <<>>]}

\* the conversations tried, of two message texts: one the rules rewrite, one
\* ending in whitespace; an implementation that snapshots its source may find
\* none
RuleChats(i) ==
    UNION {[1 .. n -> [id : {0}, is_user : BOOLEAN,
                       mes : {<<"a", "b">>, <<"b", " ">>}]] :
              n \in 0 .. MaxRuleTurns}
    \cup (IF i \in SnapshotImpls THEN {<<[missing |-> TRUE]>>} ELSE {})

InitRules ==
    /\ impl \in Impls
    /\ phase = "ready"
    /\ hostChat \in RuleChats(impl)
    /\ chat = IF impl \in SnapshotImpls THEN <<>> ELSE hostChat
    /\ \E rules \in UNION {[1 .. n -> RuleSet(impl)] : n \in 0 .. MaxRules},
          texts \in TextSettings :
           extension_settings =
               Entry(ObjectAssign(ObjectAssign(defaultSettings(impl), texts),
                                  [regexRules |-> rules]))
    /\ ret = NoRet
    /\ defaultRegexRules = NoDefaultRules

NextRules ==
    \/ replaceMacros
    \/ historyEXT
    \/ lastmessageEXT
    \/ thread
    \/ lastusermessage
    \/ lastusermessageformatted
    \/ onPromptReady
    \/ \E macro \in HistoryMacros : historyR(macro)

SpecRules == InitRules /\ [][NextRules]_vars

\* the rewrite engine of implementation i on a text of the given speaker
applyRegexRules(i, text, isUser, rules) ==
    CASE i = "userscript"  -> applyRegexRules_userscript(text, rules, 1)
      [] i = "threader"    -> applyRegex_threader(text, rules, 1)
      [] i = "builder"     -> applyRegexRules_builder(text, isUser, rules, 1)
      [] i = "handler"     -> applyRegex_handler(text, rules, 1)
      [] i = "texthistory" -> applyRegexRules_texthistory(text, rules, 1)

\* rule.flags || "g"
FlagsOrG(flags) == IF Len(flags) = 0 THEN <<"g">> ELSE flags

\* new RegExp(...) of the rule's find pattern does not throw
RuleCompiles(i, rule) ==
    CASE i = "userscript"  -> RegExpCompiles(rule.pattern, FlagsOrG(rule.flags))
      [] i = "threader"    -> RegExpCompiles(rule.find, FlagsOrG(rule.flags))
      [] i = "builder"     -> RegExpCompiles(rule.pattern, FlagsOrG(rule.flags))
      [] i = "handler"     -> RegExpCompiles(rule.find, <<"g", "i">>)
      [] i = "texthistory" -> RegExpCompiles(rule.findRegex, <<"g">>)

\* the formatted-history output `key` of implementation i for the selected
\* messages
HistoryOutput(i, key, messages, config) ==
    CASE i = "userscript" /\ key = "headers" -> generateHeaders(messages, config)
      [] i = "userscript" /\ key = "history" -> generateXML(messages, config)
      [] i = "userscript" /\ key = "lastMessage" ->
             generateLastMessage(messages, config)
      [] i = "threader" -> FormatMessages_threader(messages, config)
      [] i = "builder" ->
             Trim(ThreadString(buildThread(messages, config, 1), 1))
      [] i = "handler" -> buildFormattedHistory(messages, config)
      [] i = "texthistory" -> MacroOutput(key, messages, config)

\* the formatted-history outputs of the last invocation
HistoryKeys ==
    IF ~IsHistoryOp THEN {}
    ELSE IF impl = "userscript" THEN {"headers", "history", "lastMessage"}
    ELSE DOMAIN ret.out \ {"lastMessage"}

\* the texts the last invocation handed to the rewrite engine, each with the
\* speaker it was handed for
RewriteInputs ==
    IF ~IsHistoryOp THEN {}
    ELSE IF impl = "texthistory"
    THEN {[text |-> MacroRaw(macro, ret.messages, ret.config), isUser |-> TRUE] :
             macro \in DOMAIN ret.out}
    ELSE {[text |-> ret.messages[k].mes, isUser |-> ret.messages[k].is_user] :
             k \in 1 .. Len(ret.messages)}

\* C12 -- a malformed rule is skipped: when rule k of the list does not
\* compile, the rewrite engine returns, for every text the invocation handed
\* it, what it returns for the list without rule k, and every formatted
\* history of the invocation is the one the list without rule k gives.
C12_MalformedRuleSkipped ==
    IsHistoryOp =>
        LET rules == ret.config.regexRules IN
        \A k \in 1 .. Len(rules) :
            ~RuleCompiles(impl, rules[k]) =>
                /\ \A inp \in RewriteInputs :
                       applyRegexRules(impl, inp.text, inp.isUser, rules)
                       = applyRegexRules(impl, inp.text, inp.isUser,
                                         WithoutIndex(rules, k))
                /\ \A key \in HistoryKeys :
                       ret.out[key]
                       = HistoryOutput(impl, key, ret.messages,
                                       [ret.config EXCEPT
                                           !.regexRules = WithoutIndex(rules, k)])

\* a rule that does not compile is followed by a rule that rewrote a text of
\* the invocation
C12_Witness ==
    /\ IsHistoryOp
    /\ impl \in {"builder", "texthistory"}
    /\ Len(ret.config.regexRules) = 2
    /\ ~RuleCompiles(impl, ret.config.regexRules[1])
    /\ \E inp \in RewriteInputs :
           applyRegexRules(impl, inp.text, inp.isUser, ret.config.regexRules)
           # inp.text

\* rn(...r2(r1(text))) from rule k on, where a rule taken alone is the
\* rewrite engine run on the list holding just that rule
RECURSIVE ComposeRules(_, _, _, _, _)
ComposeRules(i, text, isUser, rules, k) ==
    IF k > Len(rules) THEN text
    ELSE ComposeRules(i, applyRegexRules(i, text, isUser, <<rules[k]>>),
                      isUser, rules, k + 1)

\* C13 -- sequential rule pipeline: for every text the invocation handed to
\* the rewrite engine, the result for the list [r1..rn] is rn(...r2(r1(text))),
\* each rule working on the output of the rule before it.
C13_SequentialPipeline ==
    \A inp \in RewriteInputs :
        applyRegexRules(impl, inp.text, inp.isUser, ret.config.regexRules)
        = ComposeRules(impl, inp.text, inp.isUser, ret.config.regexRules, 1)

\* two rules that do not commute were both applied: the second worked on
\* the output of the first, and the list in the other order gives another
\* result
C13_Witness ==
    /\ IsHistoryOp
    /\ impl \in {"userscript", "handler"}
    /\ Len(ret.config.regexRules) = 2
    /\ LET rules == ret.config.regexRules IN
       \E inp \in RewriteInputs :
           LET result == applyRegexRules(impl, inp.text, inp.isUser, rules)
           IN  /\ result # applyRegexRules(impl, inp.text, inp.isUser,
                                           <<rules[2], rules[1]>>)
               /\ result # applyRegexRules(impl, inp.text, inp.isUser,
                                           <<rules[2]>>)
               /\ result # applyRegexRules(impl, inp.text, inp.isUser,
                                           <<rules[1]>>)

\* text.replace(...) with the rule's own pattern, flags and replacement
RuleReplace(i, text, rule) ==
    CASE i = "userscript" ->
             StringReplace(text, rule.pattern, FlagsOrG(rule.flags),
                           rule.replacement)
      [] i = "threader" ->
             StringReplace(text, rule.find, FlagsOrG(rule.flags), rule.replace)
      [] i = "builder" ->
             StringReplace(text, rule.pattern, FlagsOrG(rule.flags),
                           rule.replacement)
      [] i = "handler" ->
             StringReplace(text, rule.find, <<"g", "i">>, rule.replace)
      [] i = "texthistory" ->
             ApplyTrimPatterns(
                 StringReplace(text, rule.findRegex, <<"g">>, rule.replaceWith),
                 TrimPatterns(rule.trimOut), 1)

\* C14 -- rule scope and enablement: a rule that is disabled, or whose scope
\* does not match the speaker of the text, leaves the text as it is; a usable
\* rule that is enabled and whose scope matches the speaker (scope "both" and
\* rules without a scope match either speaker) rewrites the text.  The rules
\* of the template handler carry neither flag nor scope, and only the thread
\* builder's carry a scope; a usable rule has a find pattern that compiles
\* and that the implementation accepts.
C14_ScopeAndEnablement ==
    IsHistoryOp =>
        \A inp \in RewriteInputs :
            \A k \in 1 .. Len(ret.config.regexRules) :
                LET rule == ret.config.regexRules[k]
                    alone == applyRegexRules(impl, inp.text, inp.isUser, <<rule>>)
                    enabled == IF impl = "handler" THEN TRUE ELSE rule.enabled
                    scope == IF impl = "builder" THEN rule.appliesTo ELSE "both"
                    inScope == \/ scope = "both"
                               \/ scope = "user" /\ inp.isUser
                               \/ scope = "assistant" /\ ~inp.isUser
                    usable == /\ RuleCompiles(impl, rule)
                              /\ impl = "handler" => Len(rule.find) > 0
                              /\ impl = "texthistory" => Len(rule.findRegex) > 0
                IN  IF enabled /\ inScope
                    THEN usable => alone = RuleReplace(impl, inp.text, rule)
                    ELSE alone = inp.text

\* a thread was built under one enabled rule scoped to the user: it rewrote
\* the user's text and left an assistant text it matches
C14_Witness ==
    /\ IsHistoryOp
    /\ impl = "builder"
    /\ Len(ret.config.regexRules) = 1
    /\ LET rule == ret.config.regexRules[1] IN
       /\ rule.enabled /\ rule.appliesTo = "user"
       /\ \E k \in 1 .. Len(ret.messages) :
              /\ ret.messages[k].is_user
              /\ ret.blocks[k].content # ret.messages[k].mes
       /\ \E k \in 1 .. Len(ret.messages) :
              /\ ~ret.messages[k].is_user
              /\ ret.blocks[k].content = ret.messages[k].mes
              /\ RuleReplace(impl, ret.messages[k].mes, rule) # ret.messages[k].mes

\* the selected messages, each with its text rewritten on its own by the
\* rules, for the speaker of the message
RewrittenMessages ==
    [k \in 1 .. Len(ret.messages) |->
        [ret.messages[k] EXCEPT
            !.mes = applyRegexRules(impl, ret.messages[k].mes,
                                    ret.messages[k].is_user,
                                    ret.config.regexRules)]]

\* C15 -- rules rewrite message text only: every formatted history is the
\* serialization, under no rules, of the selected messages with each text
\* rewritten on its own; so headers, names, tags, numbering and separators
\* are those of the settings, and no match spans two messages.
C15_RulesRewriteTextOnly ==
    \A key \in HistoryKeys :
        ret.out[key]
        = HistoryOutput(impl, key, RewrittenMessages,
                        [ret.config EXCEPT !.regexRules = <<>>])

\* the block layout `[header\n]?[<tag_message>\n]?name: content[\n</tag_message>]?`
\* for one message whose text has been rewritten
LayoutBlock(msg, config) ==
    LET name == IF msg.is_user THEN config.userName ELSE config.assistantName
        header == IF msg.is_user THEN config.userHeader ELSE config.assistantHeader
        tag == IF msg.is_user THEN config.xmlUserTag ELSE config.xmlAssistantTag
    IN  (IF Len(header) > 0 THEN header \o NL ELSE <<>>)
        \o (IF Len(tag) > 0 THEN OpenMessageTag(tag) \o NL ELSE <<>>)
        \o name \o <<":", " ">> \o msg.mes
        \o (IF Len(tag) > 0 THEN NL \o CloseMessageTag(tag) ELSE <<>>)

\* C16 -- block layout: the formatted history of the threader and of the
\* thread builder is the blocks of that layout, one for each selected message,
\* joined by a blank line, with no whitespace at either end.
C16_BlockLayout ==
    (IsHistoryOp /\ impl \in {"threader", "builder"}) =>
        \A key \in HistoryKeys :
            ret.out[key]
            = Trim(Join([k \in 1 .. Len(RewrittenMessages) |->
                            LayoutBlock(RewrittenMessages[k], ret.config)],
                        NL \o NL, 1))

\* C17 -- empty or missing conversation: when the conversation source is
\* empty or missing, every output of an invocation (formatted history in any
\* style, last message, last user message, formatted last user message) is
\* the empty string.
C17_EmptyConversation ==
    (ret.op # "none" /\ Len(OrEmptyArray(hostChat)) = 0) =>
        \A key \in DOMAIN ret.out : ret.out[key] = <<>>

(* ============================ the token estimate ======================== *)

\* longest text estimated
MaxTextLen == 5

\* a call estimateTokens(text) under the configuration saved
estimateTokensCall(text) ==
    /\ phase = "ready"
    /\ ret' = [NoRet EXCEPT
                  !.op = "estimateTokens",
                  !.arg = text,
                  !.config = Config,
                  !.threw = estimateTokensThrows(impl, text),
                  !.value = IF estimateTokensThrows(impl, text) THEN 0
                            ELSE estimateTokens(text)]
    /\ UNCHANGED <<defaultRegexRules, impl, phase, hostChat, chat, extension_settings>>

NextEstimate ==
    \/ jQueryInit_threader
    \/ jQueryInit_builder
    \/ init_handler
    \/ loadSettings
    \/ \E typed \in TypedValues : OnCharsPerTokenInput(typed)
    \* the texts estimated: every length up to MaxTextLen, and undefined
    \/ \E text \in {[k \in 1 .. n |-> "a"] : n \in 0 .. MaxTextLen}
                     \cup {<<"undefined">>} :
           estimateTokensCall(text)

SpecEstimate == Init /\ [][NextEstimate]_vars

\* C18 -- token estimate: for charsPerToken > 0 the call does not raise; for
\* a text it returns the least integer n with n * charsPerToken >= length,
\* which is 0 for the empty string; for undefined it returns 0.
C18_TokenEstimate ==
    (ret.op = "estimateTokens" /\ ret.config.charsPerToken > 0) =>
        /\ ~ret.threw
        /\ IF IsUndefined(ret.arg) THEN ret.value = 0
           ELSE /\ ret.value * ret.config.charsPerToken >= Len(ret.arg)
                /\ (ret.value - 1) * ret.config.charsPerToken < Len(ret.arg)

(* ======================= the hard-limit scenario ======================= *)

\* the conversations of 5 turns whose speakers alternate, with texts of 37
\* and of 40 characters: 10 tokens each at 4 characters a token
ScenarioChats ==
    {c \in [1 .. 5 -> [id : {0}, is_user : BOOLEAN,
                       mes : {[k \in 1 .. n |-> "a"] : n \in {37, 40}}]] :
        \A k \in 1 .. 4 : c[k].is_user # c[k + 1].is_user}

\* the settings panel is ready, nothing saved yet beyond what start-up
\* writes, and the host holds one of the conversations
InitScenario ==
    /\ impl \in Impls
    /\ phase = "ready"
    /\ hostChat \in ScenarioChats
    /\ chat = IF impl \in SnapshotImpls THEN <<>> ELSE hostChat
    /\ extension_settings = Entry(defaultSettings(impl))
    /\ ret = NoRet
    /\ defaultRegexRules = NoDefaultRules

\* the user types 25 into the maxTokens input, toggles the check boxes and
\* the history is built
NextScenario ==
    \/ OnMaxTokensInput([digits |-> TRUE, n |-> 25])
    \/ \E checked \in BOOLEAN : OnSkipLastAssistantChange(checked)
    \/ \E checked \in BOOLEAN : OnSoftTokenLimitChange(checked)
    \/ \E checked \in BOOLEAN : OnExcludeLastUserChange(checked)
    \/ replaceMacros
    \/ historyEXT
    \/ thread
    \/ onPromptReady
    \/ \E macro \in HistoryMacros : historyR(macro)

SpecScenario == InitScenario /\ [][NextScenario]_vars

\* c is a conversation of 5 alternating turns, each estimated at 10 tokens
IsScenarioConversation(c) ==
    /\ Len(c) = 5
    /\ \A k \in 1 .. 4 : c[k].is_user # c[k + 1].is_user
    /\ \A k \in 1 .. 5 : estimateTokens(c[k].mes) = 10

InputConversation ==
    CASE impl = "userscript" -> extractChatFromPage(hostChat)
      [] impl = "handler"    -> OrEmptyArray(hostChat)
      [] OTHER               -> chat

\* the positions of the conversation c whose turn is among the messages
PositionsReturned(c, messages) ==
    {p \in 1 .. Len(c) : \E k \in 1 .. Len(messages) : messages[k].id = c[p].id}

\* C20 -- contiguous selection: the turns getChatHistory returns occupy
\* contiguous positions of the conversation it was called on: between two
\* positions returned, every position is returned.
C20_ContiguousSelection ==
    [][IsHistoryOp' =>
          LET returned == PositionsReturned(InputConversation, ret'.messages)
          IN  \A i \in returned, k \in returned :
                  \A j \in (i + 1) .. (k - 1) : j \in returned]_vars

\* C20, amended -- between two positions returned, every position is
\* returned too, or is the position the drop-last-user step removed: the
\* last user turn of what the skip step left (0 when the step is off or
\* found none).
C20_ContiguousButLastUser ==
    [][IsHistoryOp' =>
          LET returned == PositionsReturned(InputConversation, ret'.messages)
              removed ==
                  IF impl # "texthistory" /\ ret'.config[ExcludeKey(impl)]
                  THEN ScanForUser(ret'.afterSkip, Len(ret'.afterSkip))
                  ELSE 0
          IN  \A i \in returned, k \in returned :
                  \A j \in (i + 1) .. (k - 1) :
                      j \in returned \/ j = removed]_vars

\* an invocation returned turns on both sides of a turn it left out
C20_Witness ==
    /\ IsHistoryOp
    /\ \E k \in 1 .. (Len(ret.messages) - 1) :
           ret.messages[k + 1].id > ret.messages[k].id + 1

(* ====================== numeric settings are clamped =================== *)

\* C21 -- numeric settings are clamped: whatever was typed into the Max
\* Tokens and Chars per Token inputs, the configuration the selector reads
\* has charsPerToken > 0 and maxTokens >= 0.
C21_NumericSettingsClamped ==
    phase = "ready" => Config.charsPerToken > 0 /\ Config.maxTokens >= 0

(* ======================== independent invocations ====================== *)

\* what the macro called name expands to when it is evaluated in the current
\* state (args holds the argument of a macro that takes one)
MacroValue(name, args) ==
    CASE impl = "userscript" ->
           (LET c == extractChatFromPage(hostChat)
               config == getConfig_userscript(extension_settings)
               h == getChatHistory_userscript(c, config)
           IN  CASE name = "headers" -> generateHeaders(h.messages, config)
                 [] name = "history" -> generateXML(h.messages, config)
                 [] name = "lastMessage" ->
                        generateLastMessage(h.messages, config)
                 [] name = "lastUserMessage" ->
                        generateLastUserMessage(
                            getLastUserMessage_userscript(h.chat), config))
      [] impl = "threader" ->
           (LET config == getConfig_threader(extension_settings)
           IN  CASE name = "historyEXT" ->
                        FormatMessages_threader(
                            getChatHistory_threader(chat, config).messages,
                            config)
                 [] name = "lastmessageEXT" -> getLastUserMessage_threader(chat))
      [] impl = "builder" ->
           (LET g == getConfig_builder(extension_settings)
           IN  CASE name = "thread" ->
                        Trim(ThreadString(
                            buildThread(
                                getChatHistory_builder(chat, g.config).messages,
                                g.config, 1),
                            1))
                 [] name = "lastusermessage" -> getLastUserMessage_builder(chat)
                 [] name = "lastusermessageformatted" ->
                        getLastUserMessageFormatted(
                            getLastUserMessage_builder(chat), g.config))
      [] impl = "handler" ->
           (LET c == OrEmptyArray(hostChat)
               config == getConfig_handler(extension_settings)
               h == getChatHistory_handler(c, config)
           IN  CASE name = "history" ->
                        buildFormattedHistory(h.messages, config)
                 [] name = "lastMessage" -> getLastUserMessage_handler(h.chat))
      [] impl = "texthistory" ->
           (LET config == getConfig_texthistory(extension_settings)
           IN  IF name = "lastNR"
               THEN LastNOutput(
                        getChatHistory_texthistory(chat, config).messages,
                        args[1], config)
               ELSE MacroOutput(
                        name,
                        getChatHistory_texthistory(chat, config).messages,
                        config))

MostRecent(messages, n) ==
    SubSeq(messages,
           Len(messages) - (IF n < Len(messages) THEN n ELSE Len(messages)) + 1,
           Len(messages))

\* the rendering `${name}: ${msg.mes}` of the turns, one block a turn
RenderTurns(turns, c) ==
    Join([k \in 1 .. Len(turns) |->
              (IF turns[k].is_user THEN c.userName ELSE c.assistantName)
              \o <<":", " ">> \o turns[k].mes],
         NL \o NL, 1)

\* the argument lastNR was called with is the decimal text of a positive
\* integer
PositiveArg == ret.arg[1].digits /\ ret.arg[1].n > 0

\* C23 -- last-N macro: called with a positive integer N, lastNR renders the
\* min(N, k) most recent turns of the k turns getChatHistory returned, in
\* their order, and nothing else.
C23_LastN ==
    (ret.op = "lastNR" /\ PositiveArg) =>
        ret.out.lastNR =
            RenderTurns(MostRecent(ret.messages, ret.arg[1].n), ret.config)

\* lastNR rendered fewer turns than the selection holds
C23_Witness ==
    /\ ret.op = "lastNR" /\ PositiveArg
    /\ 1 < ret.arg[1].n /\ ret.arg[1].n < Len(ret.messages)
    /\ ret.out.lastNR # <<>>

\* C24 -- macro argument fallback: called with an argument that is no usable
\* count (no number, zero or a negative number), lastNR renders the
\* min(10, k) most recent turns of the selection.
C24_LastNFallback ==
    (ret.op = "lastNR" /\ ~PositiveArg) =>
        ret.out.lastNR = RenderTurns(MostRecent(ret.messages, 10), ret.config)

(* =================== the lastMessage macro of the userscript =========== *)

\* C25 -- userscript {{lastMessage}}: on a conversation that is not empty the
\* macro expands to the most recent message of the conversation, rewritten
\* and wrapped in the tag of its role
\* (`<${tag}_message>${content}</${tag}_message>`); on the empty conversation
\* it expands to the empty string.
C25_LastMessageMacro ==
    ret.op = "replaceMacros" =>
        ret.out.lastMessage =
            IF Len(chat) = 0 THEN <<>>
            ELSE LET msg == chat[Len(chat)]
                     tag == IF msg.is_user THEN ret.config.xmlUserTag
                                           ELSE ret.config.xmlAssistantTag
                 IN  OpenMessageTag(tag)
                     \o applyRegexRules_userscript(msg.mes,
                                                   ret.config.regexRules, 1)
                     \o CloseMessageTag(tag)

(* ============== the history and the last user message ================== *)

\* the history was built with the exclude / remove last user option on and
\* no token limit, from a conversation that holds a user turn
ExcludedFromUnlimited ==
    /\ IsHistoryOp /\ impl # "texthistory"
    /\ ret.config[ExcludeKey(impl)]
    /\ ret.config.maxTokens = 0
    /\ \E p \in 1 .. Len(chat) : chat[p].is_user

\* C26 -- history and last user message are complementary: with the option
\* on and no token limit, exactly one user turn of the conversation is
\* missing from the history, it is the turn getLastUserMessage returns when
\* called on the same conversation (its text, in the implementations that
\* return the text), and no turn is in the history twice.
C26_HistoryAndLastUserComplement ==
    ExcludedFromUnlimited =>
        LET returned == PositionsReturned(chat, ret.messages)
            users == {p \in 1 .. Len(chat) : chat[p].is_user}
        IN  /\ Cardinality(returned) = Len(ret.messages)
            /\ \E r \in users :
                   /\ users \ returned = {r}
                   /\ CASE impl = "userscript" ->
                               getLastUserMessage_userscript(chat) = <<chat[r]>>
                        [] impl = "threader" ->
                               getLastUserMessage_threader(chat) = chat[r].mes
                        [] impl = "builder" ->
                               getLastUserMessage_builder(chat) = chat[r].mes
                        [] impl = "handler" ->
                               getLastUserMessage_handler(chat) = chat[r].mes
                        [] OTHER -> FALSE

\* the skip step dropped a trailing assistant turn and the exclude step a
\* user turn, and another user turn is in the history
C26_Witness ==
    /\ ExcludedFromUnlimited
    /\ Len(chat) = MaxTurns
    /\ Len(ret.messages) = Len(chat) - 2
    /\ \E k \in 1 .. Len(ret.messages) : ret.messages[k].is_user

(* ========================= hard-mode maximality ======================== *)

\* C27 -- hard-mode maximality: with maxTokens > 0 and the soft limit off the
\* result is a suffix of the filtered sequence whose estimates sum to at
\* most maxTokens, and it is the longest one: no longer suffix fits, and
\* when a turn is left out the newest turn left out, added to the turns
\* returned, exceeds maxTokens.
C27_HardMaximality ==
    (IsHistoryOp /\ Config.maxTokens > 0 /\ ~SoftMode) =>
        LET f == ret.afterExclude
            m == ret.messages
            k == Len(f) - Len(m)
        IN  /\ k >= 0
            /\ m = SubSeq(f, k + 1, Len(f))
            /\ SumFrom(m, 1) <= Config.maxTokens
            /\ \A j \in 1 .. k : SumFrom(f, j) > Config.maxTokens
            /\ k > 0 =>
                   estimateTokens(f[k].mes) + SumFrom(m, 1) > Config.maxTokens

\* a turn was returned, the turn before it was over the budget, and an older
\* turn that would have fitted was left out with it
C27_Witness ==
    /\ IsHistoryOp /\ Config.maxTokens > 0 /\ ~SoftMode
    /\ Len(ret.messages) >= 1
    /\ Len(ret.afterExclude) - Len(ret.messages) >= 2
    /\ \E j \in 1 .. (Len(ret.afterExclude) - Len(ret.messages) - 1) :
           estimateTokens(ret.afterExclude[j].mes) + SumFrom(ret.messages, 1)
               <= Config.maxTokens

(* ============================ soft versus hard ========================= *)

\* getChatHistory on the conversation the last invocation worked on, under
\* its configuration with softTokenLimit set to soft
SelectionWith(soft) ==
    select(impl, chat, [ret.config EXCEPT !.softTokenLimit = soft])

\* C28 -- soft versus hard: with maxTokens > 0 the soft-mode selection ends
\* with the hard-mode selection and has at most one turn more than it.
C28_SoftContainsHard ==
    (IsHistoryOp /\ impl # "texthistory" /\ ret.config.maxTokens > 0) =>
        LET soft == SelectionWith(TRUE)
            hard == SelectionWith(FALSE)
        IN  /\ ret.messages = IF SoftMode THEN soft ELSE hard
            /\ Len(hard) <= Len(soft)
            /\ Len(soft) <= Len(hard) + 1
            /\ hard = SubSeq(soft, Len(soft) - Len(hard) + 1, Len(soft))

(* ============================ editing the rules ======================== *)
\* defaultRegexRules.arr holds the elements of the array
\* defaultSettings.regexRules; defaultRegexRules.shared tells that the
\* regexRules of the settings object is that same array.

\* the find texts typed into the rule inputs
RuleFindTexts == {<<>>, <<"a">>}

\* the rule the add handler of each implementation pushes; find is what the
\* threader reads from its input
NewRule(i, find) ==
    CASE i = "userscript" ->
             [enabled |-> TRUE, pattern |-> <<>>, replacement |-> <<>>,
              flags |-> <<"g">>]
      [] i = "threader" ->
             [find |-> find, replace |-> <<>>, flags |-> <<"g">>,
              enabled |-> TRUE]
      [] i = "builder" ->
             [pattern |-> <<>>, replacement |-> <<>>, flags |-> <<"g">>,
              appliesTo |-> "both", enabled |-> TRUE]
      [] i = "handler" -> [find |-> <<>>, replace |-> <<>>]
      [] i = "texthistory" ->
             [enabled |-> TRUE, findRegex |-> <<>>, replaceWith |-> <<>>,
              trimOut |-> <<>>]

\* the field of the rule object each input writes; the rows of the threader
\* have no find input, the rows of the handler no check box
RuleField(i) ==
    CASE i = "userscript"  -> [enabled |-> "enabled", find |-> "pattern"]
      [] i = "threader"    -> [enabled |-> "enabled"]
      [] i = "builder"     -> [enabled |-> "enabled", find |-> "pattern"]
      [] i = "handler"     -> [find |-> "find"]
      [] i = "texthistory" -> [enabled |-> "enabled", find |-> "findRegex"]

\* the settings object holds a regexRules array
HasRules(es) == es.present /\ "regexRules" \in DOMAIN es.obj

\* the array the handlers reach as config.regexRules (settings.regexRules ||
\* [] in the handler): arr is its elements, isDefault tells that it is the
\* array of defaultSettings
ConfigRules ==
    CASE impl = "userscript" ->
             IF HasRules(extension_settings)
             THEN [arr |-> extension_settings.obj.regexRules, isDefault |-> FALSE]
             ELSE [arr |-> defaultRegexRules.arr, isDefault |-> TRUE]
      [] impl \in {"threader", "builder"} ->
             IF HasRules(extension_settings)
             THEN [arr |-> extension_settings.obj.regexRules,
                   isDefault |-> defaultRegexRules.shared]
             ELSE [arr |-> defaultRegexRules.arr, isDefault |-> TRUE]
      [] impl = "handler" ->
             IF HasRules(extension_settings)
             THEN [arr |-> extension_settings.obj.regexRules,
                   isDefault |-> defaultRegexRules.shared]
             ELSE [arr |-> <<>>, isDefault |-> FALSE]
      [] impl = "texthistory" ->
             [arr |-> extension_settings.obj.regexRules,
              isDefault |-> defaultRegexRules.shared]

\* the array reached as config.regexRules has been changed in place to hold
\* the elements arr, and is then saved under the key regexRules; the
\* userscript saves a serialized copy of the configuration
SaveRulesInPlace(arr) ==
    /\ extension_settings' = saveSetting(impl, extension_settings, "regexRules", arr)
    /\ defaultRegexRules' =
           [arr |-> IF ConfigRules.isDefault THEN arr ELSE defaultRegexRules.arr,
            shared |-> IF impl = "userscript" THEN FALSE
                       ELSE ConfigRules.isDefault]
    /\ ret' = NoRet
    /\ UNCHANGED <<impl, phase, hostChat, chat>>

\* the add-rule handlers: config.regexRules.push({...}), then the save; the
\* threader returns at once when its find input is empty
addRegexRule(find) ==
    /\ phase = "ready"
    /\ Len(ConfigRules.arr) < MaxRules
    /\ impl = "threader" => find # <<>>
    /\ SaveRulesInPlace(Append(ConfigRules.arr, NewRule(impl, find)))

\* the edit handlers: config.regexRules[index][field] = value, then the
\* save; input names the input changed, checked and find what it holds
updateRegexRule(index, input, checked, find) ==
    /\ phase = "ready"
    /\ index \in 1 .. Len(ConfigRules.arr)
    /\ input \in DOMAIN RuleField(impl)
    /\ SaveRulesInPlace(
           [ConfigRules.arr EXCEPT
               ![index][RuleField(impl)[input]] =
                   IF input = "enabled" THEN checked ELSE find])

\* the delete handlers: config.regexRules.splice(index, 1), then the save;
\* deleteRule of texthistory stores a new array, regexRules.filter(...)
deleteRegexRule(index) ==
    /\ phase = "ready"
    /\ index \in 1 .. Len(ConfigRules.arr)
    /\ IF impl = "texthistory"
       THEN /\ extension_settings' =
                   saveSetting(impl, extension_settings, "regexRules",
                               WithoutIndex(ConfigRules.arr, index))
            /\ defaultRegexRules' = [defaultRegexRules EXCEPT !.shared = FALSE]
            /\ ret' = NoRet
            /\ UNCHANGED <<impl, phase, hostChat, chat>>
       ELSE SaveRulesInPlace(WithoutIndex(ConfigRules.arr, index))

NextRuleEdits ==
    \/ jQueryInit_threader
    \/ jQueryInit_builder
    \/ init_handler
    \/ loadSettings
    \/ \E checked \in BOOLEAN : OnSkipLastAssistantChange(checked)
    \/ \E find \in RuleFindTexts : addRegexRule(find)
    \* the inputs of a rule's row: its check box and its find input
    \/ \E index \in 1 .. MaxRules, input \in {"enabled", "find"},
          checked \in BOOLEAN,
          find \in RuleFindTexts :
           updateRegexRule(index, input, checked, find)
    \/ \E index \in 1 .. MaxRules : deleteRegexRule(index)

SpecRuleEdits == Init /\ [][NextRuleEdits]_vars

\* C29 -- hardcoded defaults are never mutated: once the settings are set
\* up, defaultSettings.regexRules is empty and is not the array the settings
\* object holds as its regexRules, whatever settings operations were done.
C29_DefaultsNeverMutated ==
    phase = "ready" =>
        defaultRegexRules.arr = <<>> /\ ~defaultRegexRules.shared

(* ========================= template expansion ========================== *)
\* The placeholders, as the characters their patterns match:
\* /\{\{headers\}\}/gi and the like.

Chars_headersMacro ==
    <<"{", "{", "h", "e", "a", "d", "e", "r", "s", "}", "}">>

Chars_historyMacro ==
    <<"{", "{", "h", "i", "s", "t", "o", "r", "y", "}", "}">>

Chars_lastMessageMacro ==
    <<"{", "{", "l", "a", "s", "t", "M", "e", "s", "s", "a", "g", "e", "}",
      "}">>

Chars_lastUserMessageMacro ==
    <<"{", "{", "l", "a", "s", "t", "U", "s", "e", "r", "M", "e", "s", "s",
      "a", "g", "e", "}", "}">>

\* flags of the placeholder patterns
MacroFlags == <<"g", "i">>

\* most turns of a conversation a template is expanded on
MaxTemplateTurns == 1

\* the templates tried
Templates ==
    {Chars_headersMacro, Chars_historyMacro, Chars_lastMessageMacro,
     Chars_lastUserMessageMacro,
     <<"a">> \o Chars_historyMacro \o <<"b">> \o Chars_lastMessageMacro}

\* the conversations tried; their message texts are plain text, or text that
\* spells a placeholder
TemplateChats ==
    UNION {[1 .. n -> [id : {0}, is_user : BOOLEAN,
                       mes : {<<"a">>, Chars_historyMacro,
                              Chars_lastMessageMacro}]] :
              n \in 0 .. MaxTemplateTurns}

\* the defaults with the headers and the tags set to one character each
ShortTextSettings(i) ==
    [defaultSettings(i) EXCEPT
        !.userHeader = <<"#">>, !.assistantHeader = <<"#">>,
        !.xmlUserTag = <<"u">>, !.xmlAssistantTag = <<"t">>]

\* the settings are saved, with short headers and tags, and the host holds
\* one of the conversations
InitTemplates ==
    /\ impl \in {"userscript", "handler"}
    /\ phase = "ready"
    /\ hostChat \in TemplateChats
    /\ chat = <<>>
    /\ extension_settings = Entry(ShortTextSettings(impl))
    /\ ret = NoRet
    /\ defaultRegexRules = NoDefaultRules

\* result = result.replace(pattern, value) for the entries of table from the
\* k-th on, one after the other; an entry is <<placeholder, value>>
RECURSIVE ReplaceEach(_, _, _)
ReplaceEach(result, table, k) ==
    IF k > Len(table) THEN result
    ELSE ReplaceEach(StringReplace(result, table[k][1], MacroFlags, table[k][2]),
                     table, k + 1)

\* copyWithMacros(template) of the userscript: replaceMacros(template), that
\* is updateChatData(), then one replace per placeholder; the result goes to
\* the clipboard
copyWithMacros(template) ==
    /\ impl = "userscript" /\ phase = "ready"
    /\ LET c == extractChatFromPage(hostChat)
           config == getConfig_userscript(extension_settings)
           h == getChatHistory_userscript(c, config)
           lastUserMsg == getLastUserMessage_userscript(h.chat)
           headers == generateHeaders(h.messages, config)
           history == generateXML(h.messages, config)
           lastMessage == generateLastMessage(h.messages, config)
           lastUserMessage == generateLastUserMessage(lastUserMsg, config)
       IN  /\ chat' = h.chat
           /\ ret' = [HistoryRetWith("copyWithMacros", h, config) EXCEPT
                         !.arg = template,
                         !.out =
                             [headers |-> headers, history |-> history,
                              lastMessage |-> lastMessage,
                              lastUserMessage |-> lastUserMessage,
                              result |->
                                  ReplaceEach(
                                      template,
                                      <<<<Chars_headersMacro, headers>>,
                                        <<Chars_historyMacro, history>>,
                                        <<Chars_lastMessageMacro, lastMessage>>,
                                        <<Chars_lastUserMessageMacro,
                                          lastUserMessage>>>>,
                                      1)]]
    /\ UNCHANGED <<defaultRegexRules, impl, phase, hostChat, extension_settings>>

\* onPromptReady(eventData) of the handler, eventData holding one message
\* whose content is content: the two replaces on msg.content
onPromptReadyMessages(content) ==
    /\ impl = "handler" /\ phase = "ready"
    /\ LET c == OrEmptyArray(hostChat)
           config == getConfig_handler(extension_settings)
           h == getChatHistory_handler(c, config)
           history == buildFormattedHistory(h.messages, config)
           lastMessage == getLastUserMessage_handler(h.chat)
       IN  /\ chat' = h.chat
           /\ hostChat' = IF IsMissing(hostChat) THEN hostChat ELSE h.chat
           /\ ret' = [HistoryRetWith("onPromptReadyMessages", h, config) EXCEPT
                         !.arg = content,
                         !.out =
                             [history |-> history, lastMessage |-> lastMessage,
                              result |->
                                  ReplaceEach(
                                      content,
                                      <<<<Chars_historyMacro, history>>,
                                        <<Chars_lastMessageMacro, lastMessage>>>>,
                                      1)]]
    /\ UNCHANGED <<defaultRegexRules, impl, phase, extension_settings>>

NextTemplates ==
    \/ \E checked \in BOOLEAN : OnSkipLastAssistantChange(checked)
    \/ \E template \in Templates : copyWithMacros(template)
    \/ \E content \in Templates : onPromptReadyMessages(content)

SpecTemplates == InitTemplates /\ [][NextTemplates]_vars

\* the placeholders of the implementation with the values the last
\* expansion gave them
MacroTable ==
    IF impl = "userscript"
    THEN <<<<Chars_headersMacro, ret.out.headers>>,
           <<Chars_historyMacro, ret.out.history>>,
           <<Chars_lastMessageMacro, ret.out.lastMessage>>,
           <<Chars_lastUserMessageMacro, ret.out.lastUserMessage>>>>
    ELSE <<<<Chars_historyMacro, ret.out.history>>,
           <<Chars_lastMessageMacro, ret.out.lastMessage>>>>

\* the template from position i on with the placeholders written in it
\* replaced by their values, the values themselves left as they are
RECURSIVE ExpandOnce(_, _, _)
ExpandOnce(template, table, i) ==
    IF i > Len(template) THEN <<>>
    ELSE IF \E k \in 1 .. Len(table) : MatchesAt(template, i, table[k][1], MacroFlags)
    THEN LET k == CHOOSE q \in 1 .. Len(table) :
                      MatchesAt(template, i, table[q][1], MacroFlags)
         IN  table[k][2] \o ExpandOnce(template, table, i + Len(table[k][1]))
    ELSE <<template[i]>> \o ExpandOnce(template, table, i + 1)

\* C30 -- single-pass macro expansion: the expanded template is the template
\* with each placeholder written in it replaced by its value; placeholder
\* text inside a value (it came from a conversation message) stays literal.
C30_SinglePassExpansion ==
    ret.op \in {"copyWithMacros", "onPromptReadyMessages"} =>
        ret.out.result = ExpandOnce(ret.arg, MacroTable, 1)

====
